---- MODULE Spec2Model ----
(***************************************************************************)
(* Model of the AgriGuard API orchestrator (src/api/api_orchestrator.py).  *)
(*                                                                         *)
(* One inbound request is in flight at a time.  Every `await` of a handler *)
(* is one step; the synchronous code between two awaits runs inside the    *)
(* step that precedes it, as it does on the event loop.  An upstream       *)
(* answer is either a transport failure (client.get / client.post raises)  *)
(* or an HTTP status with a body.                                          *)
(*                                                                         *)
(* Further sections model, over the same variables and each under a        *)
(* specification of its own: the feature transformer taken alone           *)
(* (SpecTransform), the stress calculators, the composite and the          *)
(* recommendation rules (SpecStress), two requests in flight at once       *)
(* (SpecConcurrent), the chat services of src/rag (SpecRag) and the        *)
(* seeders of the knowledge collection (SpecSeed, SpecSeedFair).           *)
(***************************************************************************)
EXTENDS Integers, Sequences, FiniteSets, TLC

VARIABLES
    ep,        \* handler serving the request in flight ("idle" before the first)
    pc,        \* position of that handler: the next await, or "done"
    args,      \* the request's parameters
    net,       \* health_check only: what each address answers to GET /health
    attempts,  \* outbound attempts of this request, in order
    locals,    \* the handler's local variables
    result,    \* what the caller receives
    prev       \* history, kept under SpecHistory only: how the preceding
               \* request was reported to its caller, when it failed and no
               \* request has succeeded since

vars == <<ep, pc, args, net, attempts, locals, result, prev>>

----------------------------------------------------------------------------
(* Bounds *)

MaxWeek  == 1     \* weeks of season range over 0..MaxWeek
MaxItems == 2     \* longest timeseries an upstream returns
MaxSeasonWeek == 2   \* weeks of season of the inputs of the transformer taken alone

----------------------------------------------------------------------------
(* Addresses, src/api/api_orchestrator.py:14-17 *)

MCSI_URL        == "http://mcsi:8000"
YIELD_URL       == "http://yield:8001"
MCSI_URL_LOCAL  == "http://localhost:8000"
YIELD_URL_LOCAL == "http://localhost:8001"

Addrs == {MCSI_URL, YIELD_URL, MCSI_URL_LOCAL, YIELD_URL_LOCAL}

\* The fallback address of a primary address.
Local(addr) == IF addr = MCSI_URL THEN MCSI_URL_LOCAL ELSE YIELD_URL_LOCAL

----------------------------------------------------------------------------
(* Optional values: <<>> is None, <<v>> is v *)

None == <<>>
Some(v) == <<v>>

(* JSON values.  Numbers are kept with their Python type: an int, or a     *)
(* float held in thousandths (33700 is 33.7).                              *)
JNull       == [t |-> "null"]
JInt(n)     == [t |-> "int", n |-> n]
JFloat(n)   == [t |-> "float", n |-> n]
JStr(s)     == [t |-> "str", s |-> s]
JList(xs)   == [t |-> "list", items |-> xs]
JDict(d)    == [t |-> "dict", d |-> d]
EmptyDict   == [k \in {} |-> JNull]

----------------------------------------------------------------------------
(* Upstream answers *)

Transport == [kind |-> "transport", status |-> 0]
Http(s)   == [kind |-> "http", status |-> s]

UpStatuses == {200, 204, 404, 500}
Outcomes   == {Transport} \cup {Http(s) : s \in UpStatuses}

\* httpx Response.raise_for_status: raises on 4xx and 5xx
RaisesForStatus(s) == s >= 400

----------------------------------------------------------------------------
(* Response bodies.  A body either fails to parse as JSON or parses to a   *)
(* value; Response.json() raises on the former and returns the latter.     *)

NotJson    == [ok |-> FALSE, json |-> JNull]
Parsed(v)  == [ok |-> TRUE, json |-> v]

\* Bodies an upstream may send with the given status: 204 comes with an
\* empty body, and a body that comes with an error status is never read.
BodiesFor(status, okBodies) == IF status = 200 THEN okBodies ELSE {NotJson}

----------------------------------------------------------------------------
(* Exceptions *)

Exc(type, msg) == [type |-> type, msg |-> msg]
NoExc          == Exc("none", "")

ConnectError       == Exc("ConnectError", "All connection attempts failed")
HTTPStatusError(s) == Exc("HTTPStatusError", "Error status " \o ToString(s))
JSONDecodeError    == Exc("JSONDecodeError", "Expecting value")
ClientFault        == Exc("RuntimeError", "client failure")

----------------------------------------------------------------------------
(* Results handed to the caller *)

NoResult == [kind |-> "none"]
Ok(body) == [kind |-> "ok", code |-> 200, body |-> body]
\* raise HTTPException(status_code=code, detail=detail)
HTTPException(code, detail) == [kind |-> "error", code |-> code, detail |-> detail]

\* One outbound attempt: the call it belongs to, the address and URL it went
\* to, the JSON it carried and how it ended.
Attempt(call, addr, path, query, sent, out) ==
    [call |-> call, addr |-> addr, path |-> path, query |-> query,
     sent |-> sent, out |-> out]

NoPrev == [ep |-> "none", type |-> "none", code |-> 0, detail |-> ""]

\* How the request that just finished was reported, kept when it failed.
Carry == IF result.kind = "error"
         THEN [ep |-> ep, type |-> locals.e.type, code |-> result.code, detail |-> result.detail]
         ELSE NoPrev

NoArgs   == [fips |-> ""]
NoLocals == [e |-> NoExc]

NoNet == [a \in {} |-> Transport]

\* The handler returns or raises: the request is over.
Finish(res, loc) ==
    /\ pc' = "done"
    /\ result' = res
    /\ locals' = loc
    /\ prev' = IF res.kind = "error" THEN prev ELSE NoPrev

\* The handler suspends at its next await.
Goto(next, loc) ==
    /\ pc' = next
    /\ locals' = loc
    /\ UNCHANGED <<result, prev>>

\* A request arrives and its handler starts.
Enter(handler, a, n) ==
    /\ pc = "idle"
    /\ ep' = handler
    /\ args' = a
    /\ net' = n
    /\ attempts' = <<>>

\* The response is sent and everything the request held is dropped.
Drop ==
    /\ pc = "done"
    /\ pc' = "idle"
    /\ ep' = "idle"
    /\ args' = NoArgs
    /\ net' = NoNet
    /\ attempts' = <<>>
    /\ locals' = NoLocals
    /\ result' = NoResult

respond ==
    /\ Drop
    /\ prev' = NoPrev

\* The same step, with the report of a failure written to the history.
respond_remember ==
    /\ Drop
    /\ prev' = Carry

----------------------------------------------------------------------------
(* health_check, src/api/api_orchestrator.py:19-45 *)

\* Variant of HealthBody: one healthy dependency is enough.
HealthBodyAny(mh, yh) ==
    [status   |-> IF mh \/ yh THEN "healthy" ELSE "degraded",
     services |-> [mcsi  |-> IF mh THEN "healthy" ELSE "unhealthy",
                   yield |-> IF yh THEN "healthy" ELSE "unhealthy"]]

HealthBody(mh, yh) ==
    [status   |-> IF mh /\ yh THEN "healthy" ELSE "degraded",
     services |-> [mcsi  |-> IF mh THEN "healthy" ELSE "unhealthy",
                   yield |-> IF yh THEN "healthy" ELSE "unhealthy"]]

UnhealthyBody(e) == [status |-> "unhealthy", error |-> e.msg]

HealthLocals == [mcsi_health |-> FALSE, yield_health |-> FALSE, e |-> NoExc]

\* Variant of health_check_enter without the outer try: the exception
\* escapes and the framework answers 500.
health_check_enter_unguarded ==
    /\ \E n \in [Addrs -> Outcomes] : Enter("health_check", NoArgs, n)
    /\ \E fault \in BOOLEAN :
          IF fault
          THEN Finish(HTTPException(500, "Internal Server Error"),
                      [HealthLocals EXCEPT !.e = ClientFault])
          ELSE Goto("mcsi_primary", HealthLocals)

\* lines 21-24: the request arrives and the client is constructed; an
\* exception here is caught by the outer handler of line 44.
health_check_enter ==
    /\ \E n \in [Addrs -> Outcomes] : Enter("health_check", NoArgs, n)
    /\ \E fault \in BOOLEAN :
          IF fault
          THEN Finish(Ok(UnhealthyBody(ClientFault)), [HealthLocals EXCEPT !.e = ClientFault])
          ELSE Goto("mcsi_primary", HealthLocals)

\* Variant of HealthProbe: an answer other than 200 hands over to the
\* fallback probe as a raise does.
HealthProbeUntil200(here, call, addr, field, onRaise, next) ==
    /\ ep = "health_check"
    /\ pc = here
    /\ LET out == net[addr] IN
       /\ attempts' = Append(attempts, Attempt(call, addr, <<"health">>, <<>>, None, out))
       /\ IF out.kind = "transport" \/ out.status # 200
          THEN Goto(onRaise, locals)
          ELSE Goto(next, [locals EXCEPT ![field] = TRUE])
    /\ UNCHANGED <<ep, args, net>>

\* One GET <addr>/health.  A primary probe that raises hands over to the
\* fallback probe; a fallback probe that raises is passed over.
HealthProbe(here, call, addr, field, onRaise, next) ==
    /\ ep = "health_check"
    /\ pc = here
    /\ LET out == net[addr] IN
       /\ attempts' = Append(attempts, Attempt(call, addr, <<"health">>, <<>>, None, out))
       /\ IF out.kind = "transport"
          THEN Goto(onRaise, locals)
          ELSE Goto(next, [locals EXCEPT ![field] = (out.status = 200)])
    /\ UNCHANGED <<ep, args, net>>

\* lines 25-27
health_mcsi_primary ==
    HealthProbe("mcsi_primary", "health_mcsi", MCSI_URL, "mcsi_health", "mcsi_local", "yield_primary")

\* lines 28-33
health_mcsi_local ==
    HealthProbe("mcsi_local", "health_mcsi", MCSI_URL_LOCAL, "mcsi_health", "yield_primary", "yield_primary")

\* lines 34-36
health_yield_primary ==
    HealthProbe("yield_primary", "health_yield", YIELD_URL, "yield_health", "yield_local", "return")

\* lines 37-42
health_yield_local ==
    HealthProbe("yield_local", "health_yield", YIELD_URL_LOCAL, "yield_health", "return", "return")

\* line 43, once the client block is left
health_check_return ==
    /\ ep = "health_check"
    /\ pc = "return"
    /\ Finish(Ok(HealthBody(locals.mcsi_health, locals.yield_health)), locals)
    /\ UNCHANGED <<ep, args, net, attempts>>

----------------------------------------------------------------------------
(* get_mcsi, src/api/api_orchestrator.py:71-82, and get_mcsi_timeseries,   *)
(* src/api/api_orchestrator.py:47-69                                       *)

Fips == {"19001", "abc"}

\* Payloads of the stress-data collaborator for one county.
McsiPayloads ==
    { JDict([fips |-> JStr(f), mcsi_score |-> JFloat(45200)]) : f \in Fips }
    \cup { JList(<<>>), JNull }

McsiBodies == {NotJson} \cup { Parsed(v) : v \in McsiPayloads }

\* A response object: status_code and body.
Response(out, body) == [status_code |-> out.status, body |-> body]

ProxyLocals == [response |-> None, e |-> NoExc]

\* except Exception (lines 67-69, 81-82)
McsiUnavailable(e, loc) ==
    Finish(HTTPException(503, "MCSI unavailable"), [loc EXCEPT !.e = e])

\* Variant of ProxyReturn: a payload that is no list is wrapped in one, as
\* get_yield_forecast does with its timeseries.
ProxyReturnWrapped(response) ==
    LET loc == [locals EXCEPT !.response = Some(response)] IN
    IF RaisesForStatus(response.status_code)
    THEN McsiUnavailable(HTTPStatusError(response.status_code), loc)
    ELSE IF ~response.body.ok
    THEN McsiUnavailable(JSONDecodeError, loc)
    ELSE Finish(Ok(IF response.body.json.t # "list"
                   THEN JList(<<response.body.json>>)
                   ELSE response.body.json), loc)

\* response.raise_for_status(); return response.json()   (lines 65-66, 79-80)
ProxyReturn(response) ==
    LET loc == [locals EXCEPT !.response = Some(response)] IN
    IF RaisesForStatus(response.status_code)
    THEN McsiUnavailable(HTTPStatusError(response.status_code), loc)
    ELSE IF ~response.body.ok
    THEN McsiUnavailable(JSONDecodeError, loc)
    ELSE Finish(Ok(response.body.json), loc)

\* Variant of ProxyPrimary: an error status sends the call to the fallback
\* address too.
ProxyPrimaryEager(handler, call, path, query, okBodies) ==
    /\ ep = handler
    /\ pc = "primary"
    /\ \E out \in Outcomes : \E body \in BodiesFor(out.status, okBodies) :
          /\ attempts' = Append(attempts, Attempt(call, MCSI_URL, path, query, None, out))
          /\ IF out.kind = "transport" \/ RaisesForStatus(out.status)
             THEN Goto("local", locals)
             ELSE ProxyReturn(Response(out, body))
    /\ UNCHANGED <<ep, args, net>>

\* client.get on the primary address; the bare except sends every raise to
\* the fallback address.
ProxyPrimary(handler, call, path, query, okBodies) ==
    /\ ep = handler
    /\ pc = "primary"
    /\ \E out \in Outcomes : \E body \in BodiesFor(out.status, okBodies) :
          /\ attempts' = Append(attempts, Attempt(call, MCSI_URL, path, query, None, out))
          /\ IF out.kind = "transport"
             THEN Goto("local", locals)
             ELSE ProxyReturn(Response(out, body))
    /\ UNCHANGED <<ep, args, net>>

\* Variant of ProxyLocal: a fallback attempt that raises is made again.
ProxyLocalRetry(handler, call, path, query, okBodies) ==
    /\ ep = handler
    /\ pc = "local"
    /\ \E out \in Outcomes : \E body \in BodiesFor(out.status, okBodies) :
          /\ attempts' = Append(attempts, Attempt(call, MCSI_URL_LOCAL, path, query, None, out))
          /\ IF out.kind = "transport"
             THEN Goto("local", locals)
             ELSE ProxyReturn(Response(out, body))
    /\ UNCHANGED <<ep, args, net>>

\* client.get on the fallback address; a raise here reaches the handler's
\* outer except.
ProxyLocal(handler, call, path, query, okBodies) ==
    /\ ep = handler
    /\ pc = "local"
    /\ \E out \in Outcomes : \E body \in BodiesFor(out.status, okBodies) :
          /\ attempts' = Append(attempts, Attempt(call, MCSI_URL_LOCAL, path, query, None, out))
          /\ IF out.kind = "transport"
             THEN McsiUnavailable(ConnectError, locals)
             ELSE ProxyReturn(Response(out, body))
    /\ UNCHANGED <<ep, args, net>>

ProxyEnter(handler, a) ==
    /\ Enter(handler, a, NoNet)
    /\ \E fault \in BOOLEAN :
          IF fault
          THEN Finish(HTTPException(503, "MCSI unavailable"), [ProxyLocals EXCEPT !.e = ClientFault])
          ELSE Goto("primary", ProxyLocals)

\* line 76 / 78: f"{MCSI_URL}/mcsi/county/{fips}"
McsiPath(fips) == <<"mcsi", "county", fips>>

get_mcsi_enter == \E fips \in Fips : ProxyEnter("get_mcsi", [fips |-> fips])

get_mcsi_primary == ProxyPrimary("get_mcsi", "mcsi", McsiPath(args.fips), <<>>, McsiBodies)

get_mcsi_local == ProxyLocal("get_mcsi", "mcsi", McsiPath(args.fips), <<>>, McsiBodies)

\* Query parameters of a timeseries request.
Limits == {30, 5}
Dates  == {None, Some("2025-06-01")}

\* Payloads of the stress-data collaborator's timeseries, as the proxy sees
\* them: it hands them on without looking inside.
SeriesPayloads ==
    { JList(<<>>),
      JList(<<JDict([week_of_season |-> JInt(1)])>>),
      JDict([detail |-> JStr("no data")]) }

SeriesBodies == {NotJson} \cup { Parsed(v) : v \in SeriesPayloads }

\* lines 51-55 and 59-63: /mcsi/county/{fips}/timeseries?limit={limit}
\* followed by start_date and end_date when they are given
TimeseriesPath(fips) == <<"mcsi", "county", fips, "timeseries">>

TimeseriesQuery(a) ==
    <<<<"limit", ToString(a.limit)>>>>
    \o (IF a.start_date # None THEN <<<<"start_date", a.start_date[1]>>>> ELSE <<>>)
    \o (IF a.end_date # None THEN <<<<"end_date", a.end_date[1]>>>> ELSE <<>>)

get_mcsi_timeseries_enter ==
    \E fips \in Fips, sd \in Dates, ed \in Dates, limit \in Limits :
        ProxyEnter("get_mcsi_timeseries",
                   [fips |-> fips, start_date |-> sd, end_date |-> ed, limit |-> limit])

get_mcsi_timeseries_primary ==
    ProxyPrimary("get_mcsi_timeseries", "timeseries",
                 TimeseriesPath(args.fips), TimeseriesQuery(args), SeriesBodies)

get_mcsi_timeseries_local ==
    ProxyLocal("get_mcsi_timeseries", "timeseries",
               TimeseriesPath(args.fips), TimeseriesQuery(args), SeriesBodies)

----------------------------------------------------------------------------
(* get_yield_forecast, src/api/api_orchestrator.py:84-134 *)

\* dict.get(k, default)
Get(d, k, default) == IF k \in DOMAIN d THEN d[k] ELSE default

\* A computation that may raise: the exception, or NoExc and the value.
Raise(e)  == [e |-> e, v |-> JNull]
Value(v)  == [e |-> NoExc, v |-> v]

AttributeError == Exc("AttributeError", "object has no attribute 'get'")
EmptyMax       == Exc("ValueError", "max() arg is an empty sequence")
NotOrdered(op) == Exc("TypeError", "'" \o op \o "' not supported between instances")
BadLiteral     == Exc("ValueError", "invalid literal for int() with base 10")
NotANumber     == Exc("TypeError", "int() argument must be a string or a real number")

\* float -> int: truncation toward zero
Trunc(n) == IF n >= 0 THEN n \div 1000 ELSE -((-n) \div 1000)

\* Strings that int() accepts, with their values.
IntLiterals == [s \in {"33", "0"} |-> IF s = "33" THEN 33 ELSE 0]

\* Variant of IntCast: a float is rounded down (math.floor for int).
IntCastFloor(x) ==
    CASE x.t = "int"   -> Value(JInt(x.n))
      [] x.t = "float" -> Value(JInt(x.n \div 1000))
      [] x.t = "str"   -> IF x.s \in DOMAIN IntLiterals
                          THEN Value(JInt(IntLiterals[x.s]))
                          ELSE Raise(BadLiteral)
      [] OTHER         -> Raise(NotANumber)

\* int(x)
IntCast(x) ==
    CASE x.t = "int"   -> Value(JInt(x.n))
      [] x.t = "float" -> Value(JInt(Trunc(x.n)))
      [] x.t = "str"   -> IF x.s \in DOMAIN IntLiterals
                          THEN Value(JInt(IntLiterals[x.s]))
                          ELSE Raise(BadLiteral)
      [] OTHER         -> Raise(NotANumber)

\* item.get("week_of_season", 0)
WeekOf(item) ==
    IF item.t # "dict" THEN Raise(AttributeError)
    ELSE Value(Get(item.d, "week_of_season", JInt(0)))

\* a > b / a <= b on two JSON values: defined on numbers only
Ordered(a, b) == a.t = "int" /\ b.t = "int"

\* line 97: max(item.get("week_of_season", 0) for item in timeseries),
\* from item i on, best being the largest value so far
RECURSIVE MaxFrom(_, _, _)
MaxFrom(items, i, best) ==
    IF i > Len(items) THEN Value(best)
    ELSE LET w == WeekOf(items[i]) IN
         IF w.e # NoExc THEN w
         ELSE IF ~Ordered(w.v, best) THEN Raise(NotOrdered(">"))
         ELSE MaxFrom(items, i + 1, IF w.v.n > best.n THEN w.v ELSE best)

MaxWeekOfSeason(items) ==
    IF Len(items) = 0 THEN Raise(EmptyMax)
    ELSE LET w == WeekOf(items[1]) IN
         IF w.e # NoExc THEN w ELSE MaxFrom(items, 2, w.v)

\* line 97: week if week else max(...)
CurrentWeek(week, items) ==
    IF week # None /\ week[1] # 0 THEN Value(JInt(week[1]))
    ELSE MaxWeekOfSeason(items)

\* Variant of FilterFrom: the week of the caller is left out (< for <=).
RECURSIVE FilterFromStrict(_, _, _, _)
FilterFromStrict(items, i, cw, kept) ==
    IF i > Len(items) THEN Value(JList(kept))
    ELSE LET w == WeekOf(items[i]) IN
         IF w.e # NoExc THEN w
         ELSE IF ~Ordered(w.v, cw) THEN Raise(NotOrdered("<="))
         ELSE FilterFromStrict(items, i + 1, cw,
                               IF w.v.n < cw.n THEN Append(kept, items[i]) ELSE kept)

\* line 98: [item for item in timeseries if item.get("week_of_season", 0) <= current_week],
\* the value being the list of kept items
RECURSIVE FilterFrom(_, _, _, _)
FilterFrom(items, i, cw, kept) ==
    IF i > Len(items) THEN Value(JList(kept))
    ELSE LET w == WeekOf(items[i]) IN
         IF w.e # NoExc THEN w
         ELSE IF ~Ordered(w.v, cw) THEN Raise(NotOrdered("<="))
         ELSE FilterFrom(items, i + 1, cw,
                         IF w.v.n <= cw.n THEN Append(kept, items[i]) ELSE kept)

\* lines 103-110: one entry of raw_data
Entry(item) ==
    LET indicators == Get(item.d, "indicators", JDict(EmptyDict)) IN
    IF indicators.t # "dict" THEN Raise(AttributeError)
    ELSE LET days == IntCast(Get(indicators.d, "lst_mean", JInt(0))) IN
         IF days.e # NoExc THEN days
         ELSE Value(JDict(
                [water_deficit_mean |-> Get(indicators.d, "water_deficit_mean", JInt(0)),
                 lst_days_above_32C |-> days.v,
                 ndvi_mean          |-> Get(indicators.d, "ndvi_mean", JFloat(500)),
                 vpd_mean           |-> Get(indicators.d, "vpd_mean", JInt(0)),
                 pr_sum             |-> Get(indicators.d, "precipitation_mean", JInt(0))]))

\* d[k] = v
Put(d, k, v) == [x \in DOMAIN d \cup {k} |-> IF x = k THEN v ELSE d[x]]

\* lines 100-110: the loop over the filtered items, from item i on
RECURSIVE RawDataFrom(_, _, _)
RawDataFrom(filtered, i, raw_data) ==
    IF i > Len(filtered) THEN Value(JDict(raw_data))
    ELSE LET entry == Entry(filtered[i]) IN
         IF entry.e # NoExc THEN entry
         ELSE LET w == Get(filtered[i].d, "week_of_season", JInt(0)) IN
              RawDataFrom(filtered, i + 1, Put(raw_data, ToString(w.n), entry.v))

\* lines 94-112: from the parsed timeseries to the forecast request
YieldRequest(fips, week, parsed) ==
    LET timeseries   == IF parsed.t # "list" THEN <<parsed>> ELSE parsed.items
        current_week == CurrentWeek(week, timeseries)
    IN  IF current_week.e # NoExc THEN current_week
        ELSE LET filtered == FilterFrom(timeseries, 1, current_week.v, <<>>) IN
             IF filtered.e # NoExc THEN filtered
             ELSE LET raw_data == RawDataFrom(filtered.v.items, 1, EmptyDict) IN
                  IF raw_data.e # NoExc THEN raw_data
                  ELSE Value(JDict([fips         |-> JStr(fips),
                                    current_week |-> current_week.v,
                                    year         |-> JInt(2025),
                                    raw_data     |-> raw_data.v]))

\* Variant of YieldResponse: the optional fields are read with ydata[...].
YieldResponseStrict(fips, current_week, ydata) ==
    IF ydata.t # "dict" THEN Raise(AttributeError)
    ELSE IF {"forecast_uncertainty", "model_r2"} \subseteq DOMAIN ydata.d
    THEN Value(JDict(
           [fips                |-> JStr(fips),
            week                |-> current_week,
            predicted_yield     |-> Get(ydata.d, "yield_forecast_bu_acre", JNull),
            confidence_interval |-> ydata.d.forecast_uncertainty,
            confidence_lower    |-> Get(ydata.d, "confidence_interval_lower", JNull),
            confidence_upper    |-> Get(ydata.d, "confidence_interval_upper", JNull),
            primary_driver      |-> Get(ydata.d, "primary_driver", JStr("unknown")),
            model_r2            |-> ydata.d.model_r2]))
    ELSE Raise(Exc("KeyError", "forecast_uncertainty"))

\* lines 122-131: the response assembled from the forecast payload
YieldResponse(fips, current_week, ydata) ==
    IF ydata.t # "dict" THEN Raise(AttributeError)
    ELSE Value(JDict(
           [fips                |-> JStr(fips),
            week                |-> current_week,
            predicted_yield     |-> Get(ydata.d, "yield_forecast_bu_acre", JNull),
            confidence_interval |-> Get(ydata.d, "forecast_uncertainty", JFloat(310)),
            confidence_lower    |-> Get(ydata.d, "confidence_interval_lower", JNull),
            confidence_upper    |-> Get(ydata.d, "confidence_interval_upper", JNull),
            primary_driver      |-> Get(ydata.d, "primary_driver", JStr("unknown")),
            model_r2            |-> Get(ydata.d, "model_r2", JFloat(835))]))

\* Inputs: the week parameter, absent or an integer
WeeksTo(last) == {None} \cup { Some(w) : w \in -1..last }
Weeks == WeeksTo(MaxWeek)

\* Inputs: the items of an upstream timeseries.  The week is absent, null
\* or a week; the indicators are absent, complete, partial with a negative
\* temperature, or carry a temperature that is no number.
ItemWeeksTo(last) == {None, Some(JNull)} \cup { Some(JInt(w)) : w \in 0..last }
ItemWeeks == ItemWeeksTo(MaxWeek)

ItemIndicators ==
    { None,
      Some(JDict([water_deficit_mean |-> JFloat(3200), lst_mean |-> JFloat(33700),
                  ndvi_mean |-> JFloat(700), vpd_mean |-> JFloat(1200),
                  precipitation_mean |-> JFloat(4000)])),
      Some(JDict([lst_mean |-> JFloat(-1500)])),
      Some(JDict([lst_mean |-> JStr("abc")])) }

Field(k, opt) == IF opt = None THEN EmptyDict ELSE k :> opt[1]

ItemsTo(last) == { JDict(Field("week_of_season", w) @@ Field("indicators", ind)) :
                     w \in ItemWeeksTo(last), ind \in ItemIndicators }
Items == ItemsTo(MaxWeek)

\* Payloads of the timeseries fetch: a list of items, one bare item, or null
TimeseriesPayloadsTo(last) ==
    { JList(xs) : xs \in UNION { [1..n -> ItemsTo(last)] : n \in 0..MaxItems } }
    \cup ItemsTo(last) \cup {JNull}
TimeseriesPayloads == TimeseriesPayloadsTo(MaxWeek)

TimeseriesBodies == {NotJson} \cup { Parsed(v) : v \in TimeseriesPayloads }

\* Payloads of the forecasting collaborator: any of its fields may be
\* missing, or the payload is no object at all
ForecastFields ==
    [yield_forecast_bu_acre    |-> JFloat(185500),
     forecast_uncertainty      |-> JFloat(250),
     confidence_interval_lower |-> JFloat(180000),
     confidence_interval_upper |-> JFloat(190000),
     primary_driver            |-> JStr("water_stress"),
     model_r2                  |-> JFloat(900)]

ForecastPayloads ==
    { JDict([k \in ks |-> ForecastFields[k]]) : ks \in SUBSET DOMAIN ForecastFields }
    \cup {JList(<<>>)}

ForecastBodies == {NotJson} \cup { Parsed(v) : v \in ForecastPayloads }

YieldLocals == [current_week |-> JNull, yield_req |-> JNull, e |-> NoExc]

\* Variant of YieldError: only the HTTP client's exceptions are caught, the
\* others escape and the framework answers on its own.
YieldErrorNarrow(e, loc) ==
    IF e.type \in {"ConnectError", "HTTPStatusError"}
    THEN Finish(HTTPException(500, e.msg), [loc EXCEPT !.e = e])
    ELSE Finish([kind |-> "unhandled", code |-> 500, detail |-> "Internal Server Error"],
                [loc EXCEPT !.e = e])

\* except Exception (lines 132-134)
YieldError(e, loc) ==
    Finish(HTTPException(500, e.msg), [loc EXCEPT !.e = e])

\* Variant of get_yield_forecast_enter: an identifier that is not five
\* digits is refused before any call is made.
get_yield_forecast_enter_validating ==
    /\ \E fips \in Fips, week \in Weeks :
          Enter("get_yield_forecast", [fips |-> fips, week |-> week], NoNet)
    /\ \E fault \in BOOLEAN :
          IF args'.fips # "19001"
          THEN Finish(HTTPException(422, "invalid fips"), YieldLocals)
          ELSE IF fault
          THEN YieldError(ClientFault, YieldLocals)
          ELSE Goto("ts_primary", YieldLocals)

\* lines 85-87
get_yield_forecast_enter ==
    /\ \E fips \in Fips, week \in Weeks :
          Enter("get_yield_forecast", [fips |-> fips, week |-> week], NoNet)
    /\ \E fault \in BOOLEAN :
          IF fault
          THEN YieldError(ClientFault, YieldLocals)
          ELSE Goto("ts_primary", YieldLocals)

\* Variant of AfterTimeseries: a failed fetch counts as an empty timeseries.
AfterTimeseriesLenient(ts_res) ==
    LET parsed == IF RaisesForStatus(ts_res.status_code) \/ ~ts_res.body.ok
                  THEN JList(<<>>) ELSE ts_res.body.json
        yield_req == YieldRequest(args.fips, args.week, parsed)
    IN  IF yield_req.e # NoExc
        THEN YieldError(yield_req.e, locals)
        ELSE Goto("post_primary",
                  [locals EXCEPT !.current_week = yield_req.v.d.current_week,
                                 !.yield_req = yield_req.v])

\* lines 92-113: the timeseries response has arrived
AfterTimeseries(ts_res) ==
    IF RaisesForStatus(ts_res.status_code)
    THEN YieldError(HTTPStatusError(ts_res.status_code), locals)
    ELSE IF ~ts_res.body.ok
    THEN YieldError(JSONDecodeError, locals)
    ELSE LET yield_req == YieldRequest(args.fips, args.week, ts_res.body.json) IN
         IF yield_req.e # NoExc
         THEN YieldError(yield_req.e, locals)
         ELSE Goto("post_primary",
                   [locals EXCEPT !.current_week = yield_req.v.d.current_week,
                                  !.yield_req = yield_req.v])

TimeseriesQuery30 == <<<<"limit", "30">>>>

\* lines 88-89
get_yield_forecast_ts_primary ==
    /\ ep = "get_yield_forecast"
    /\ pc = "ts_primary"
    /\ \E out \in Outcomes : \E body \in BodiesFor(out.status, TimeseriesBodies) :
          /\ attempts' = Append(attempts, Attempt("yield_ts", MCSI_URL,
                                 TimeseriesPath(args.fips), TimeseriesQuery30, None, out))
          /\ IF out.kind = "transport"
             THEN Goto("ts_local", locals)
             ELSE AfterTimeseries(Response(out, body))
    /\ UNCHANGED <<ep, args, net>>

\* lines 90-91
get_yield_forecast_ts_local ==
    /\ ep = "get_yield_forecast"
    /\ pc = "ts_local"
    /\ \E out \in Outcomes : \E body \in BodiesFor(out.status, TimeseriesBodies) :
          /\ attempts' = Append(attempts, Attempt("yield_ts", MCSI_URL_LOCAL,
                                 TimeseriesPath(args.fips), TimeseriesQuery30, None, out))
          /\ IF out.kind = "transport"
             THEN YieldError(ConnectError, locals)
             ELSE AfterTimeseries(Response(out, body))
    /\ UNCHANGED <<ep, args, net>>

\* Variant of AfterForecast: a failed forecast counts as an empty payload,
\* so the response is assembled from the defaults.
AfterForecastLenient(yres) ==
    LET ydata == IF RaisesForStatus(yres.status_code) \/ ~yres.body.ok
                 THEN JDict(EmptyDict) ELSE yres.body.json
        response == YieldResponse(args.fips, locals.current_week, ydata)
    IN  IF response.e # NoExc
        THEN YieldError(response.e, locals)
        ELSE Finish(Ok(response.v), locals)

\* lines 119-131: the forecast response has arrived
AfterForecast(yres) ==
    IF RaisesForStatus(yres.status_code)
    THEN YieldError(HTTPStatusError(yres.status_code), locals)
    ELSE IF ~yres.body.ok
    THEN YieldError(JSONDecodeError, locals)
    ELSE LET response == YieldResponse(args.fips, locals.current_week, yres.body.json) IN
         IF response.e # NoExc
         THEN YieldError(response.e, locals)
         ELSE Finish(Ok(response.v), locals)

\* Variant of get_yield_forecast_post_primary: one fallback decision per
\* request, the POST going to the local address once the timeseries fetch
\* had to.
get_yield_forecast_post_primary_sticky ==
    /\ ep = "get_yield_forecast"
    /\ pc = "post_primary"
    /\ \E out \in Outcomes : \E body \in BodiesFor(out.status, ForecastBodies) :
          /\ attempts' = Append(attempts, Attempt("yield_post",
                                 IF Len(attempts) = 2 THEN YIELD_URL_LOCAL ELSE YIELD_URL,
                                 <<"forecast">>, <<>>, Some(locals.yield_req), out))
          /\ IF out.kind = "transport"
             THEN IF Len(attempts) = 2
                  THEN YieldError(ConnectError, locals)
                  ELSE Goto("post_local", locals)
             ELSE AfterForecast(Response(out, body))
    /\ UNCHANGED <<ep, args, net>>

\* lines 115-116
get_yield_forecast_post_primary ==
    /\ ep = "get_yield_forecast"
    /\ pc = "post_primary"
    /\ \E out \in Outcomes : \E body \in BodiesFor(out.status, ForecastBodies) :
          /\ attempts' = Append(attempts, Attempt("yield_post", YIELD_URL,
                                 <<"forecast">>, <<>>, Some(locals.yield_req), out))
          /\ IF out.kind = "transport"
             THEN Goto("post_local", locals)
             ELSE AfterForecast(Response(out, body))
    /\ UNCHANGED <<ep, args, net>>

\* lines 117-118
get_yield_forecast_post_local ==
    /\ ep = "get_yield_forecast"
    /\ pc = "post_local"
    /\ \E out \in Outcomes : \E body \in BodiesFor(out.status, ForecastBodies) :
          /\ attempts' = Append(attempts, Attempt("yield_post", YIELD_URL_LOCAL,
                                 <<"forecast">>, <<>>, Some(locals.yield_req), out))
          /\ IF out.kind = "transport"
             THEN YieldError(ConnectError, locals)
             ELSE AfterForecast(Response(out, body))
    /\ UNCHANGED <<ep, args, net>>

----------------------------------------------------------------------------

Init ==
    /\ ep = "idle"
    /\ pc = "idle"
    /\ args = NoArgs
    /\ net = NoNet
    /\ attempts = <<>>
    /\ locals = NoLocals
    /\ result = NoResult
    /\ prev = NoPrev

Handlers ==
    \/ health_check_enter
    \/ health_mcsi_primary
    \/ health_mcsi_local
    \/ health_yield_primary
    \/ health_yield_local
    \/ health_check_return
    \/ get_mcsi_enter
    \/ get_mcsi_primary
    \/ get_mcsi_local
    \/ get_mcsi_timeseries_enter
    \/ get_mcsi_timeseries_primary
    \/ get_mcsi_timeseries_local
    \/ get_yield_forecast_enter
    \/ get_yield_forecast_ts_primary
    \/ get_yield_forecast_ts_local
    \/ get_yield_forecast_post_primary
    \/ get_yield_forecast_post_local

Next ==
    \/ respond
    \/ Handlers

Spec == Init /\ [][Next]_vars

\* The same system with the history of failure reports.
NextHistory ==
    \/ respond_remember
    \/ Handlers

SpecHistory == Init /\ [][NextHistory]_vars

----------------------------------------------------------------------------
(* The two pure parts of get_yield_forecast on their own: the feature      *)
(* transformer (lines 94-112) and the response assembly (lines 122-131).   *)
(* The inputs are drawn at the start and stay in args; the value or the    *)
(* exception of the computation is put in result.                          *)

\* Inputs of the transformer: the handler's parameters and the parsed
\* timeseries payload
TransformerInputs ==
    { [fn |-> "YieldRequest", fips |-> f, week |-> w, timeseries |-> p] :
        f \in Fips, w \in WeeksTo(MaxSeasonWeek),
        p \in TimeseriesPayloadsTo(MaxSeasonWeek) }

\* Forecast payloads whose optional fields are present and null
NullPayloads ==
    { JDict([forecast_uncertainty |-> JNull, model_r2 |-> JNull]),
      JDict([yield_forecast_bu_acre |-> JFloat(185500), model_r2 |-> JNull]) }

\* Inputs of the response assembly: fips, current_week and the parsed
\* forecast payload
AssemblyInputs ==
    { [fn |-> "YieldResponse", fips |-> f, current_week |-> JInt(w), ydata |-> y] :
        f \in Fips, w \in 0..MaxWeek, y \in ForecastPayloads \cup NullPayloads }

InitTransform ==
    /\ ep = "transform"
    /\ pc = "start"
    /\ args \in TransformerInputs \cup AssemblyInputs
    /\ net = NoNet
    /\ attempts = <<>>
    /\ locals = NoLocals
    /\ result = NoResult
    /\ prev = NoPrev

\* lines 94-112
apply_YieldRequest ==
    /\ pc = "start"
    /\ args.fn = "YieldRequest"
    /\ pc' = "done"
    /\ result' = YieldRequest(args.fips, args.week, args.timeseries)
    /\ UNCHANGED <<ep, args, net, attempts, locals, prev>>

\* lines 122-131
apply_YieldResponse ==
    /\ pc = "start"
    /\ args.fn = "YieldResponse"
    /\ pc' = "done"
    /\ result' = YieldResponse(args.fips, args.current_week, args.ydata)
    /\ UNCHANGED <<ep, args, net, attempts, locals, prev>>

NextTransform ==
    \/ apply_YieldRequest
    \/ apply_YieldResponse

SpecTransform == InitTransform /\ [][NextTransform]_vars

\* The transformer ran on the inputs in args and produced a request body.
Transformed == pc = "done" /\ args.fn = "YieldRequest" /\ result.e = NoExc

\* The items of the fetched timeseries (lines 95-96) and the week of season
\* of the i-th, as line 97 reads it
ItemsOf(parsed) == IF parsed.t = "list" THEN parsed.items ELSE <<parsed>>
WeekAt(parsed, i) == Get(ItemsOf(parsed)[i].d, "week_of_season", JInt(0))

\* w is the largest week of season of the timeseries.
IsMaxWeek(w, parsed) ==
    /\ \E i \in 1..Len(ItemsOf(parsed)) : WeekAt(parsed, i) = w
    /\ \A i \in 1..Len(ItemsOf(parsed)) : WeekAt(parsed, i).n <= w.n

----------------------------------------------------------------------------
(* The stress calculators and the status label.  calculate_water_stress,   *)
(* calculate_heat_stress (imported by src/tests/test_mcsi.py) and          *)
(* get_stress_status (imported by src/api/test_rag_integration.py) are     *)
(* defined outside src/ and are written here from their specification; the *)
(* two step rules are the ones src/tests/test_data_processing.py spells    *)
(* out.  Numbers of this section are held in tenths: 35 is 3.5.            *)

MaxDeficit == 7     \* water deficits range over -1.0 .. MaxDeficit mm
MaxTemp    == 40    \* mean temperatures range over 30.0 .. MaxTemp degrees

Tenths(x) == 10 * x

Min(a, b) == IF a <= b THEN a ELSE b

\* Variant of get_stress_status: each band includes its upper edge.
get_stress_status_upper(csi) ==
    IF csi <= Tenths(20) THEN "HEALTHY"
    ELSE IF csi <= Tenths(40) THEN "MILD"
    ELSE IF csi <= Tenths(60) THEN "MODERATE"
    ELSE IF csi <= Tenths(80) THEN "SEVERE"
    ELSE "CRITICAL"

\* status(csi)
get_stress_status(csi) ==
    IF csi < Tenths(20) THEN "HEALTHY"
    ELSE IF csi < Tenths(40) THEN "MILD"
    ELSE IF csi < Tenths(60) THEN "MODERATE"
    ELSE IF csi < Tenths(80) THEN "SEVERE"
    ELSE "CRITICAL"

\* Variant of test_water_stress_calculation: a deficit of exactly 4 falls in
\* the band above (< 4 for <= 4).
test_water_stress_calculation_open(deficit) ==
    IF deficit < 0 THEN Tenths(0)
    ELSE IF deficit < Tenths(2) THEN Tenths(20)
    ELSE IF deficit < Tenths(4) THEN Tenths(50)
    ELSE IF deficit < Tenths(6) THEN Tenths(75)
    ELSE Tenths(100)

\* src/tests/test_data_processing.py:63-72, the step rule of the deficit
test_water_stress_calculation(deficit) ==
    IF deficit < 0 THEN Tenths(0)
    ELSE IF deficit < Tenths(2) THEN Tenths(20)
    ELSE IF deficit <= Tenths(4) THEN Tenths(50)
    ELSE IF deficit < Tenths(6) THEN Tenths(75)
    ELSE Tenths(100)

\* src/tests/test_data_processing.py:82-85, the rule of the excess
\* temperature over the high threshold
test_heat_stress_calculation(lst_mean, threshold_high) ==
    IF lst_mean > threshold_high
    THEN Min(Tenths(100), (lst_mean - threshold_high) * 20)
    ELSE Tenths(0)

\* Variant of PollinationMultiplier: the product is not clamped.
PollinationMultiplierUnclamped(stress) == (3 * stress) \div 2

\* stress * 1.5, clamped to 100
PollinationMultiplier(stress) == Min(Tenths(100), (3 * stress) \div 2)

\* water_stress(deficit_mm, is_pollination)
calculate_water_stress(deficit_mm, is_pollination) ==
    IF is_pollination
    THEN PollinationMultiplier(test_water_stress_calculation(deficit_mm))
    ELSE test_water_stress_calculation(deficit_mm)

\* heat_stress(mean_temp, is_pollination), for the high threshold of either
\* calculator
calculate_heat_stress(lst_mean, threshold_high, is_pollination) ==
    IF is_pollination
    THEN PollinationMultiplier(test_heat_stress_calculation(lst_mean, threshold_high))
    ELSE test_heat_stress_calculation(lst_mean, threshold_high)

\* Variant of Clamp: the component is taken as it comes.
ClampNone(x) == x

\* A component outside 0..100 is brought to the nearer end of the range.
Clamp(x) == IF x < Tenths(0) THEN Tenths(0) ELSE Min(Tenths(100), x)

\* The fixed weights of the composite, in hundredths
\* (src/tests/test_mcsi.py:96, :132, :142)
WEIGHTS == [water |-> 40, heat |-> 30, vegetation |-> 20, atmospheric |-> 10]

\* composite(water, heat, vegetation, atmospheric): components in tenths,
\* the composite in thousandths (60000 is 60.0)
calculate_mcsi(water_stress, heat_stress, vegetation_stress, atmospheric_stress) ==
    WEIGHTS.water * Clamp(water_stress)
    + WEIGHTS.heat * Clamp(heat_stress)
    + WEIGHTS.vegetation * Clamp(vegetation_stress)
    + WEIGHTS.atmospheric * Clamp(atmospheric_stress)

\* The recommendation rules.  generate_recommendations (imported by
\* src/api/test_rag_integration.py) is defined outside src/ and is written
\* here from its specification.  The thresholds are not given there; the
\* values below are the band edges of the status label and agree with the
\* fixtures of src/api/test_rag_integration.py:21-61 and :294-316.
WATER_MODERATE  == Tenths(40)    \* "a moderate threshold" of the water component
HEAT_HIGH       == Tenths(60)    \* "heat component high"
LST_HARD        == Tenths(35)    \* "a hard threshold" of the mean temperature
YIELD_MARGIN    == 2             \* "a fixed relative margin", in percent

\* The condition of each of the four rules
RuleTriggers(d) ==
    [water       |-> d.water > WATER_MODERATE,
     yield       |-> 100 * d.yield < (100 - YIELD_MARGIN) * d.baseline,
     pollination |-> d.is_pollination /\ (d.heat >= HEAT_HIGH \/ d.lst_mean > LST_HARD),
     critical    |-> get_stress_status(d.csi) = "CRITICAL"]

\* Variant of RuleRecommendations: the urgency recommendation replaces the
\* others.
RuleRecommendationsOverriding(d) ==
    LET t == RuleTriggers(d) IN
    IF t.critical
    THEN <<"URGENT">>
    ELSE (IF t.water THEN <<"WATER STRESS">> ELSE <<>>)
         \o (IF t.yield THEN <<"YIELD">> ELSE <<>>)
         \o (IF t.pollination THEN <<"POLLINATION">> ELSE <<>>)

\* Each rule appends its recommendation when its condition holds; a
\* recommendation is held as the keyword that tags it.
RuleRecommendations(d) ==
    LET t == RuleTriggers(d) IN
    (IF t.water THEN <<"WATER STRESS">> ELSE <<>>)
    \o (IF t.yield THEN <<"YIELD">> ELSE <<>>)
    \o (IF t.pollination THEN <<"POLLINATION">> ELSE <<>>)
    \o (IF t.critical THEN <<"URGENT">> ELSE <<>>)

\* Variant of generate_recommendations: nothing stands in when no rule fires.
generate_recommendations_bare(d) == RuleRecommendations(d)

\* "degrades to a minimal non-empty recommendation set rather than an empty
\* one"
generate_recommendations(d) ==
    IF RuleRecommendations(d) = <<>> THEN <<"MONITOR">> ELSE RuleRecommendations(d)

\* The two high thresholds in use: 32 (src/tests/test_data_processing.py:80)
\* and 35 (src/tests/test_mcsi.py:51)
HighThresholds == {Tenths(32), Tenths(35)}

CsiValues  == 0..Tenths(100)
Deficits   == (-Tenths(1))..Tenths(MaxDeficit)
MeanTemps  == Tenths(30)..Tenths(MaxTemp)

\* Components the tests of src/tests/test_mcsi.py:75-175 pass, with the two
\* out of range (-10 and 150)
ComponentValues ==
    {Tenths(-10), Tenths(0), Tenths(20), Tenths(40), Tenths(50), Tenths(60),
     Tenths(80), Tenths(100), Tenths(150)}

\* The fixtures of src/api/test_rag_integration.py:21-61 and :294-316, the
\* pollination case of spec section 8, and values at and around them
RecommendationInputs ==
    { [fn |-> "generate_recommendations", csi |-> c, water |-> w, heat |-> h,
       lst_mean |-> t, is_pollination |-> p, yield |-> y, baseline |-> 1992,
       uncertainty |-> u] :
        c \in {0, 355, 800, 999, 1000}, w \in {0, 400, 423, 950},
        h \in {89, 750, 800}, t \in {285, 370}, p \in BOOLEAN,
        y \in {1500, 1942, 1992, 2100}, u \in {1, 4, 100} }

StressInputs ==
    { [fn |-> "get_stress_status", csi |-> c] : c \in CsiValues }
    \cup { [fn |-> "calculate_water_stress", deficit_mm |-> d, other_mm |-> o] :
             d \in Deficits, o \in Deficits }
    \cup { [fn |-> "calculate_heat_stress", lst_mean |-> t, threshold_high |-> h] :
             t \in MeanTemps, h \in HighThresholds }
    \cup { [fn |-> "calculate_mcsi", water |-> w, heat |-> h, vegetation |-> v,
             atmospheric |-> a] :
             w \in ComponentValues, h \in ComponentValues,
             v \in ComponentValues, a \in ComponentValues }
    \cup RecommendationInputs

InitStress ==
    /\ ep = "stress"
    /\ pc = "start"
    /\ args \in StressInputs
    /\ net = NoNet
    /\ attempts = <<>>
    /\ locals = NoLocals
    /\ result = NoResult
    /\ prev = NoPrev

apply_get_stress_status ==
    /\ pc = "start"
    /\ args.fn = "get_stress_status"
    /\ pc' = "done"
    /\ result' = [status |-> get_stress_status(args.csi)]
    /\ UNCHANGED <<ep, args, net, attempts, locals, prev>>

\* The calculator applied to a deficit outside and inside the pollination
\* period (src/tests/test_mcsi.py:41-42), and to a second deficit.
apply_calculate_water_stress ==
    /\ pc = "start"
    /\ args.fn = "calculate_water_stress"
    /\ pc' = "done"
    /\ result' = [stress_normal      |-> calculate_water_stress(args.deficit_mm, FALSE),
                  stress_pollination |-> calculate_water_stress(args.deficit_mm, TRUE),
                  stress_other       |-> calculate_water_stress(args.other_mm, FALSE)]
    /\ UNCHANGED <<ep, args, net, attempts, locals, prev>>

\* src/tests/test_mcsi.py:65-70
apply_calculate_heat_stress ==
    /\ pc = "start"
    /\ args.fn = "calculate_heat_stress"
    /\ pc' = "done"
    /\ result' = [stress_normal      |-> calculate_heat_stress(args.lst_mean, args.threshold_high, FALSE),
                  stress_pollination |-> calculate_heat_stress(args.lst_mean, args.threshold_high, TRUE)]
    /\ UNCHANGED <<ep, args, net, attempts, locals, prev>>

\* src/tests/test_mcsi.py:77-83
apply_calculate_mcsi ==
    /\ pc = "start"
    /\ args.fn = "calculate_mcsi"
    /\ pc' = "done"
    /\ result' = [csi |-> calculate_mcsi(args.water, args.heat, args.vegetation,
                                         args.atmospheric)]
    /\ UNCHANGED <<ep, args, net, attempts, locals, prev>>

\* src/api/test_rag_integration.py:143
apply_generate_recommendations ==
    /\ pc = "start"
    /\ args.fn = "generate_recommendations"
    /\ pc' = "done"
    /\ result' = [raised |-> NoExc, recs |-> generate_recommendations(args)]
    /\ UNCHANGED <<ep, args, net, attempts, locals, prev>>

NextStress ==
    \/ apply_calculate_mcsi
    \/ apply_generate_recommendations
    \/ apply_get_stress_status
    \/ apply_calculate_water_stress
    \/ apply_calculate_heat_stress

SpecStress == InitStress /\ [][NextStress]_vars

\* The named function was applied to the inputs in args.
Applied(fn) == pc = "done" /\ ep = "stress" /\ args.fn = fn

StatusLabels == {"HEALTHY", "MILD", "MODERATE", "SEVERE", "CRITICAL"}

----------------------------------------------------------------------------
(* Two get_yield_forecast requests in flight at once.  The event loop runs *)
(* one coroutine at a time and switches at an await, so a step is again    *)
(* one await of one request with the synchronous code that follows it.     *)
(* Every variable is here a function of the request; net keeps, for each   *)
(* request, the bodies its own two calls were answered with.               *)

Requests == {"a", "b"}

\* Variant of Frame: the locals are kept in one place for all requests, as
\* module-level variables would be.
FrameShared(r) == "a"

\* The frame holding the locals of a request: Python makes one for each
\* call of the coroutine function (line 85); the module itself holds only
\* the four addresses and the app.
Frame(r) == r

ConcWeeks == {None, Some(1)}

ConcOutcomes == {Transport, Http(200), Http(500)}

ConcTimeseriesBodies ==
    { NotJson,
      Parsed(JNull),
      Parsed(JList(<<JDict([week_of_season |-> JInt(0)]),
                     JDict([week_of_season |-> JInt(2),
                            indicators |-> JDict([lst_mean |-> JFloat(33700)])])>>)),
      Parsed(JList(<<JDict([week_of_season |-> JInt(1),
                            indicators |-> JDict([lst_mean |-> JFloat(-1500)])])>>)) }

ConcForecastBodies ==
    { NotJson, Parsed(JList(<<>>)), Parsed(JDict(EmptyDict)), Parsed(JDict(ForecastFields)) }

NoAnswers == [ts |-> None, forecast |-> None]

InitConcurrent ==
    /\ ep = "concurrent"
    /\ pc = [r \in Requests |-> "idle"]
    /\ args = [r \in Requests |-> NoArgs]
    /\ net = [r \in Requests |-> NoAnswers]
    /\ attempts = [r \in Requests |-> <<>>]
    /\ locals = [r \in Requests |-> YieldLocals]
    /\ result = [r \in Requests |-> NoResult]
    /\ prev = NoPrev

\* Request r returns or raises.
ConcFinish(r, res, loc) ==
    /\ pc' = [pc EXCEPT ![r] = "done"]
    /\ result' = [result EXCEPT ![r] = res]
    /\ locals' = [locals EXCEPT ![Frame(r)] = loc]

\* Request r suspends at its next await.
ConcGoto(r, next, loc) ==
    /\ pc' = [pc EXCEPT ![r] = next]
    /\ locals' = [locals EXCEPT ![Frame(r)] = loc]
    /\ UNCHANGED result

\* except Exception (lines 132-134)
ConcError(r, e) ==
    ConcFinish(r, HTTPException(500, e.msg), [locals[Frame(r)] EXCEPT !.e = e])

\* lines 85-87
concurrent_enter(r) ==
    /\ pc[r] = "idle"
    /\ \E fips \in Fips, week \in ConcWeeks, fault \in BOOLEAN :
          /\ args' = [args EXCEPT ![r] = [fips |-> fips, week |-> week]]
          /\ IF fault
             THEN ConcFinish(r, HTTPException(500, ClientFault.msg),
                             [YieldLocals EXCEPT !.e = ClientFault])
             ELSE ConcGoto(r, "ts_primary", YieldLocals)
    /\ UNCHANGED <<ep, net, attempts, prev>>

\* lines 92-113
ConcAfterTimeseries(r, ts_res) ==
    IF RaisesForStatus(ts_res.status_code)
    THEN ConcError(r, HTTPStatusError(ts_res.status_code))
    ELSE IF ~ts_res.body.ok
    THEN ConcError(r, JSONDecodeError)
    ELSE LET yield_req == YieldRequest(args[r].fips, args[r].week, ts_res.body.json) IN
         IF yield_req.e # NoExc
         THEN ConcError(r, yield_req.e)
         ELSE ConcGoto(r, "post_primary",
                       [locals[Frame(r)] EXCEPT !.current_week = yield_req.v.d.current_week,
                                                !.yield_req = yield_req.v])

\* lines 88-91: one attempt of the timeseries fetch
ConcTimeseries(r, here, addr) ==
    /\ pc[r] = here
    /\ \E out \in ConcOutcomes : \E body \in BodiesFor(out.status, ConcTimeseriesBodies) :
          /\ attempts' = [attempts EXCEPT ![r] =
                Append(@, Attempt("yield_ts", addr, TimeseriesPath(args[r].fips),
                                  TimeseriesQuery30, None, out))]
          /\ IF out.kind = "transport"
             THEN /\ net' = net
                  /\ IF addr = MCSI_URL
                     THEN ConcGoto(r, "ts_local", locals[Frame(r)])
                     ELSE ConcError(r, ConnectError)
             ELSE /\ net' = [net EXCEPT ![r].ts = Some(body)]
                  /\ ConcAfterTimeseries(r, Response(out, body))
    /\ UNCHANGED <<ep, args, prev>>

concurrent_ts_primary(r) == ConcTimeseries(r, "ts_primary", MCSI_URL)

concurrent_ts_local(r) == ConcTimeseries(r, "ts_local", MCSI_URL_LOCAL)

\* lines 119-131
ConcAfterForecast(r, yres) ==
    IF RaisesForStatus(yres.status_code)
    THEN ConcError(r, HTTPStatusError(yres.status_code))
    ELSE IF ~yres.body.ok
    THEN ConcError(r, JSONDecodeError)
    ELSE LET response == YieldResponse(args[r].fips, locals[Frame(r)].current_week,
                                       yres.body.json) IN
         IF response.e # NoExc
         THEN ConcError(r, response.e)
         ELSE ConcFinish(r, Ok(response.v), locals[Frame(r)])

\* lines 115-118: one attempt of the forecast POST
ConcForecast(r, here, addr) ==
    /\ pc[r] = here
    /\ \E out \in ConcOutcomes : \E body \in BodiesFor(out.status, ConcForecastBodies) :
          /\ attempts' = [attempts EXCEPT ![r] =
                Append(@, Attempt("yield_post", addr, <<"forecast">>, <<>>,
                                  Some(locals[Frame(r)].yield_req), out))]
          /\ IF out.kind = "transport"
             THEN /\ net' = net
                  /\ IF addr = YIELD_URL
                     THEN ConcGoto(r, "post_local", locals[Frame(r)])
                     ELSE ConcError(r, ConnectError)
             ELSE /\ net' = [net EXCEPT ![r].forecast = Some(body)]
                  /\ ConcAfterForecast(r, Response(out, body))
    /\ UNCHANGED <<ep, args, prev>>

concurrent_post_primary(r) == ConcForecast(r, "post_primary", YIELD_URL)

concurrent_post_local(r) == ConcForecast(r, "post_local", YIELD_URL_LOCAL)

NextConcurrent ==
    \E r \in Requests :
       \/ concurrent_enter(r)
       \/ concurrent_ts_primary(r)
       \/ concurrent_ts_local(r)
       \/ concurrent_post_primary(r)
       \/ concurrent_post_local(r)

SpecConcurrent == InitConcurrent /\ [][NextConcurrent]_vars

\* What get_yield_forecast sends and answers when it serves request r alone:
\* the forecast request made of r's parameters and of the timeseries r's own
\* fetch was answered with, and the result made of them and of the answer
\* to r's own POST.
OwnRequest(r) ==
    YieldRequest(args[r].fips, args[r].week, net[r].ts[1].json)

OwnResult(r) ==
    LET tried == attempts[r]
        last  == tried[Len(tried)]
        fail(e) == HTTPException(500, e.msg)
    IN  IF tried = <<>> THEN fail(ClientFault)
        ELSE IF last.out = Transport THEN fail(ConnectError)
        ELSE IF RaisesForStatus(last.out.status) THEN fail(HTTPStatusError(last.out.status))
        ELSE IF last.call = "yield_ts"
        THEN IF ~net[r].ts[1].ok THEN fail(JSONDecodeError) ELSE fail(OwnRequest(r).e)
        ELSE IF ~net[r].forecast[1].ok THEN fail(JSONDecodeError)
        ELSE LET response == YieldResponse(args[r].fips, OwnRequest(r).v.d.current_week,
                                           net[r].forecast[1].json) IN
             IF response.e # NoExc THEN fail(response.e) ELSE Ok(response.v)

----------------------------------------------------------------------------
(* The attempt log, read per collaborator call *)

Calls == {"health_mcsi", "health_yield", "mcsi", "timeseries", "yield_ts", "yield_post"}

\* The address a call tries first.
PrimaryOf(call) == IF call \in {"health_yield", "yield_post"} THEN YIELD_URL ELSE MCSI_URL

AttemptsOf(call) == SelectSeq(attempts, LAMBDA a : a.call = call)

Done(handler) == pc = "done" /\ ep = handler

\* The attempt was answered with a success status.
Success(a) == a.out.kind = "http" /\ ~RaisesForStatus(a.out.status)

Proxies == {"get_mcsi", "get_mcsi_timeseries"}

----------------------------------------------------------------------------
(* Properties *)

\* C1: every collaborator call makes at most two outbound attempts, never
\* two to the same address; the first goes to the primary address, and a
\* second one is made exactly when the first failed at transport level, and
\* then goes to the fallback address.
C1_AtMostTwoAttempts ==
    \A c \in Calls :
        LET tried == AttemptsOf(c) IN
        /\ Len(tried) <= 2
        /\ \A i, j \in 1..Len(tried) : i # j => tried[i].addr # tried[j].addr
        /\ Len(tried) >= 1 => tried[1].addr = PrimaryOf(c)
        /\ Len(tried) = 2 => tried[1].out = Transport /\ tried[2].addr = Local(PrimaryOf(c))
        /\ pc = "done" /\ Len(tried) >= 1 /\ tried[1].out = Transport => Len(tried) = 2

\* C1 witness: a forecast request whose POST failed on both addresses after
\* its timeseries fetch needed the fallback too.
C1_Witness ==
    /\ Done("get_yield_forecast")
    /\ Len(attempts) = 4
    /\ attempts[4].out = Transport
    /\ result.kind = "error"

\* C2: in get_mcsi and get_mcsi_timeseries, when the primary address failed
\* at transport level and the fallback address answered with a success
\* status and a JSON payload, the caller receives exactly that payload.
C2_FallbackTransparent ==
    \A h \in Proxies :
        ( /\ Done(h)
          /\ Len(attempts) = 2
          /\ attempts[1].out = Transport
          /\ attempts[2].addr = MCSI_URL_LOCAL
          /\ Success(attempts[2])
          /\ locals.response # None
          /\ locals.response[1].body.ok )
        => result = Ok(locals.response[1].body.json)

\* C2 witness: a timeseries request served by the fallback address with a
\* non-empty payload.
C2_Witness ==
    /\ Done("get_mcsi_timeseries")
    /\ Len(attempts) = 2
    /\ attempts[2].out = Http(200)
    /\ locals.response # None
    /\ locals.response[1].body = Parsed(JList(<<JDict([week_of_season |-> JInt(1)])>>))
    /\ result.kind = "ok"

\* C3: a fallback address is contacted only right after the primary address
\* of the same call failed at transport level; once the primary address has
\* answered with an HTTP status, whatever it is, the fallback address is not
\* contacted in that call.
C3_FallbackOnlyAfterTransportFailure ==
    /\ \A i \in 1..Len(attempts) :
          attempts[i].addr \in {MCSI_URL_LOCAL, YIELD_URL_LOCAL}
          => /\ i > 1
             /\ attempts[i-1].call = attempts[i].call
             /\ attempts[i-1].addr = PrimaryOf(attempts[i].call)
             /\ attempts[i-1].out = Transport
    /\ \A i \in 1..Len(attempts) :
          ( /\ attempts[i].addr = PrimaryOf(attempts[i].call)
            /\ attempts[i].out.kind = "http" )
          => \A j \in 1..Len(attempts) :
                attempts[j].call = attempts[i].call
                => attempts[j].addr # Local(PrimaryOf(attempts[i].call))

\* C3 witness: the primary address answered get_mcsi with an error status
\* and the request ended without a second attempt.
C3_Witness ==
    /\ Done("get_mcsi")
    /\ Len(attempts) = 1
    /\ attempts[1].out = Http(500)
    /\ result.kind = "error"

\* The dependency whose primary address is p answers a health probe with 200
\* on one of its two addresses.
Reachable(p) == net[p] = Http(200) \/ net[Local(p)] = Http(200)

\* The first address of the dependency to answer at all, the primary or,
\* when the primary probe raises, the fallback, answers with 200.
FirstAnswerIs200(p) ==
    \/ net[p] = Http(200)
    \/ net[p] = Transport /\ net[Local(p)] = Http(200)

\* C4 as stated: health_check reports 'healthy' exactly when both
\* dependencies are reachable on either of their addresses and 'degraded'
\* otherwise, and always returns a response.
C4_HealthyIffReachable ==
    Done("health_check") /\ locals.e = NoExc
    => /\ result.kind = "ok"
       /\ result.body.status =
             IF Reachable(MCSI_URL) /\ Reachable(YIELD_URL) THEN "healthy" ELSE "degraded"

\* C4 amended: health_check reports 'healthy' exactly when, for each of the
\* two dependencies, the first of its addresses to answer (the primary, or
\* the fallback when the primary probe raised) answers 200, and 'degraded'
\* in every other case; in each of them a response is returned.
C4_HealthyIffFirstAnswerIs200 ==
    Done("health_check") /\ locals.e = NoExc
    => /\ result.kind = "ok"
       /\ result.body.status =
             IF FirstAnswerIs200(MCSI_URL) /\ FirstAnswerIs200(YIELD_URL)
             THEN "healthy" ELSE "degraded"

\* C4 witness: a health check that is healthy through the fallback address
\* of the stress-data dependency.
C4_Witness ==
    /\ Done("health_check")
    /\ net[MCSI_URL] = Transport
    /\ Len(attempts) = 3
    /\ result.kind = "ok"
    /\ result.body.status = "healthy"

\* C5: health_check never raises.  Its response always carries 'status'
\* together with 'services' or 'error', and an exception raised outside the
\* probes gives status 'unhealthy' with the exception text in 'error'.
C5_HealthNeverRaises ==
    Done("health_check")
    => /\ result.kind = "ok"
       /\ "status" \in DOMAIN result.body
       /\ "services" \in DOMAIN result.body \/ "error" \in DOMAIN result.body
       /\ locals.e # NoExc
          => result.body = [status |-> "unhealthy", error |-> locals.e.msg]
       /\ locals.e = NoExc
          => /\ "services" \in DOMAIN result.body
             /\ result.body.status \in {"healthy", "degraded"}

\* C5 witness: the client could not be constructed and the caller was told
\* 'unhealthy'.
C5_Witness ==
    /\ Done("health_check")
    /\ locals.e = ClientFault
    /\ attempts = <<>>
    /\ result.kind = "ok"
    /\ result.body.status = "unhealthy"

\* The outcome an exception stands for, in the terms of the error taxonomy.
Outcome(type) ==
    CASE type = "ConnectError"    -> "upstream unavailable"
      [] type = "HTTPStatusError" -> "upstream error"
      [] type \in {"JSONDecodeError", "AttributeError", "TypeError", "ValueError"}
                                  -> "malformed response"
      [] OTHER                    -> "other"

UpstreamOutcomes == {"upstream unavailable", "upstream error", "malformed response"}

\* C6 as stated: two failures of the same endpoint that stand for different
\* outcomes (unavailable, error status, malformed payload) are reported to
\* the caller with different classifications (status code and detail), and
\* two that stand for the same outcome with the same status code.
C6_OutcomesDistinguished ==
    ( /\ pc = "done"
      /\ result.kind = "error"
      /\ prev.ep = ep
      /\ Outcome(prev.type) \in UpstreamOutcomes
      /\ Outcome(locals.e.type) \in UpstreamOutcomes )
    => /\ Outcome(prev.type) # Outcome(locals.e.type)
          => <<prev.code, prev.detail>> # <<result.code, result.detail>>
       /\ Outcome(prev.type) = Outcome(locals.e.type)
          => prev.code = result.code

\* C7 as stated: when the upstream answered with a non-success status, or
\* with a success status and a payload the handler cannot use, the three
\* endpoints make no further attempt and answer with a 503.
C7_BadAnswerGives503 ==
    ( /\ pc = "done"
      /\ ep \in Proxies \cup {"get_yield_forecast"}
      /\ Outcome(locals.e.type) \in {"upstream error", "malformed response"} )
    => /\ result.kind = "error"
       /\ result.code = 503
       /\ attempts # <<>>
       /\ attempts[Len(attempts)].out.kind = "http"

\* C8: in get_yield_forecast every forecast POST comes after a timeseries
\* attempt that was answered with a success status, and no timeseries
\* attempt follows a POST; a request whose timeseries fetch failed has
\* issued no POST.
C8_PostOnlyAfterTimeseries ==
    /\ \A i \in 1..Len(attempts) :
          attempts[i].call = "yield_post"
          => /\ \E j \in 1..(i-1) :
                   attempts[j].call = "yield_ts" /\ Success(attempts[j])
             /\ \A j \in (i+1)..Len(attempts) : attempts[j].call # "yield_ts"
    /\ ( /\ Done("get_yield_forecast")
         /\ \A j \in 1..Len(attempts) :
               attempts[j].call = "yield_ts" => ~Success(attempts[j]) )
       => AttemptsOf("yield_post") = <<>>

\* C8 witness: the POST is about to be retried on the fallback address
\* after the timeseries came from the fallback address.
C8_Witness ==
    /\ ep = "get_yield_forecast"
    /\ pc = "post_local"
    /\ Len(attempts) = 3
    /\ attempts[2].out = Http(200)
    /\ attempts[3].call = "yield_post"

\* The last attempt of a call, if any, failed: at transport level or with an
\* error status.
CallFailed(call) ==
    LET tried == AttemptsOf(call) IN
    /\ tried # <<>>
    /\ \/ tried[Len(tried)].out = Transport /\ tried[Len(tried)].addr = Local(PrimaryOf(call))
       \/ tried[Len(tried)].out.kind = "http" /\ ~Success(tried[Len(tried)])

CallSucceeded(call) ==
    LET tried == AttemptsOf(call) IN
    /\ tried # <<>>
    /\ Success(tried[Len(tried)])

\* C9: get_yield_forecast answers with success only when the timeseries
\* fetch and the forecast POST each got a success status from one of their
\* addresses; when either failed on both addresses or got an error status
\* the caller gets an error.
C9_NoDefaultsOnCriticalPath ==
    Done("get_yield_forecast")
    => /\ result.kind = "ok" => CallSucceeded("yield_ts") /\ CallSucceeded("yield_post")
       /\ CallFailed("yield_ts") \/ CallFailed("yield_post") => result.kind = "error"

\* C9 witness: a forecast answered with success after both calls were
\* served by their fallback addresses.
C9_Witness ==
    /\ Done("get_yield_forecast")
    /\ result.kind = "ok"
    /\ Len(attempts) = 4
    /\ attempts[2].addr = MCSI_URL_LOCAL
    /\ attempts[4].addr = YIELD_URL_LOCAL

ResponseFields ==
    {"fips", "week", "predicted_yield", "confidence_interval", "confidence_lower",
     "confidence_upper", "primary_driver", "model_r2"}

\* C10: every failure of get_yield_forecast reaches the caller as one HTTP
\* error response carrying the exception text: the request ends either with
\* that error or with the complete eight-field response, and it ends with
\* the error exactly when an exception was raised.
C10_FailuresSurfaceAsOneError ==
    Done("get_yield_forecast")
    => /\ result.kind \in {"ok", "error"}
       /\ result.kind = "error" <=> locals.e # NoExc
       /\ result.kind = "error" => result = HTTPException(500, locals.e.msg)
       /\ result.kind = "ok"
          => result.body.t = "dict" /\ DOMAIN result.body.d = ResponseFields
       /\ CallFailed("yield_ts") \/ CallFailed("yield_post") => locals.e # NoExc

\* C10 witness: a timeseries item whose temperature cannot be cast ended
\* the request with an error before any POST.
C10_Witness ==
    /\ Done("get_yield_forecast")
    /\ locals.e = BadLiteral
    /\ AttemptsOf("yield_post") = <<>>
    /\ result.kind = "error"

\* C11 as stated: current_week is the caller's week whenever the caller
\* supplies one, whatever integer it is, and is the largest week_of_season
\* of the fetched timeseries only when the caller supplies none.
C11_CurrentWeekIsCallersWeek ==
    Transformed
    => /\ args.week # None => result.v.d.current_week = JInt(args.week[1])
       /\ args.week = None => IsMaxWeek(result.v.d.current_week, args.timeseries)

\* The sub-fields of a raw_data entry: the indicator each is read from and
\* the default of lines 105-109
SubFields ==
    [water_deficit_mean |-> [from |-> "water_deficit_mean", default |-> JInt(0)],
     lst_days_above_32C |-> [from |-> "lst_mean",           default |-> JInt(0)],
     ndvi_mean          |-> [from |-> "ndvi_mean",          default |-> JFloat(500)],
     vpd_mean           |-> [from |-> "vpd_mean",           default |-> JInt(0)],
     pr_sum             |-> [from |-> "precipitation_mean", default |-> JInt(0)]]

\* The indicators of the i-th item of the timeseries, none when it has none
IndicatorsAt(parsed, i) ==
    IF "indicators" \in DOMAIN ItemsOf(parsed)[i].d
    THEN ItemsOf(parsed)[i].d.indicators.d
    ELSE EmptyDict

\* The items of the timeseries whose week of season is w
ItemsOfWeek(parsed, w) ==
    { i \in 1..Len(ItemsOf(parsed)) : WeekAt(parsed, i).n = w }

\* The weeks of season of the timeseries up to current_week cw
WeeksUpTo(parsed, cw) ==
    { WeekAt(parsed, i).n : i \in { j \in 1..Len(ItemsOf(parsed)) : WeekAt(parsed, j).n <= cw } }

\* C12: the raw_data sent to the forecasting collaborator has one entry for
\* each distinct week_of_season <= current_week of the fetched timeseries
\* (an item without week_of_season counting as week 0) and none for a later
\* week; every entry has the five sub-fields, and a sub-field whose
\* indicator is absent from the item holds its default 0, 0, 0.5, 0, 0.
C12_RawDataPerWeek ==
    Transformed
    => LET cw  == result.v.d.current_week.n
           raw == result.v.d.raw_data.d
           ts  == args.timeseries
       IN  /\ \A w \in WeeksUpTo(ts, cw) : ToString(w) \in DOMAIN raw
           /\ \A k \in DOMAIN raw : \E w \in WeeksUpTo(ts, cw) : k = ToString(w)
           /\ Cardinality(DOMAIN raw) = Cardinality(WeeksUpTo(ts, cw))
           /\ \A i \in 1..Len(ItemsOf(ts)) :
                 WeekAt(ts, i).n > cw => ToString(WeekAt(ts, i).n) \notin DOMAIN raw
           /\ \A k \in DOMAIN raw : DOMAIN raw[k].d = DOMAIN SubFields
           /\ \A w \in WeeksUpTo(ts, cw) :
                 \E i \in ItemsOfWeek(ts, w) :
                    \A f \in DOMAIN SubFields :
                       SubFields[f].from \notin DOMAIN IndicatorsAt(ts, i)
                       => raw[ToString(w)].d[f] = SubFields[f].default

\* C12 witness: a timeseries of weeks 0 and 2 cut at the caller's week 1,
\* the entry of week 0 made of defaults only.
C12_Witness ==
    /\ Transformed
    /\ args.week = Some(1)
    /\ \E i \in 1..Len(ItemsOf(args.timeseries)) : WeekAt(args.timeseries, i) = JInt(2)
    /\ DOMAIN result.v.d.raw_data.d = {"0"}
    /\ result.v.d.raw_data.d["0"] =
          JDict([water_deficit_mean |-> JInt(0), lst_days_above_32C |-> JInt(0),
                 ndvi_mean |-> JFloat(500), vpd_mean |-> JInt(0), pr_sum |-> JInt(0)])

\* The response assembly ran on the inputs in args.
Assembled == pc = "done" /\ args.fn = "YieldResponse"

\* The fields of the response read from the forecast payload: the payload
\* key of each and the default when the key is missing (lines 125-130)
ForecastKeys ==
    [predicted_yield     |-> [from |-> "yield_forecast_bu_acre",    default |-> JNull],
     confidence_interval |-> [from |-> "forecast_uncertainty",      default |-> JFloat(310)],
     confidence_lower    |-> [from |-> "confidence_interval_lower", default |-> JNull],
     confidence_upper    |-> [from |-> "confidence_interval_upper", default |-> JNull],
     primary_driver      |-> [from |-> "primary_driver",            default |-> JStr("unknown")],
     model_r2            |-> [from |-> "model_r2",                  default |-> JFloat(835)]]

\* C13: given a success response of the forecasting collaborator whose
\* payload is a JSON object, the response assembly does not fail whichever
\* fields the payload lacks: confidence_interval is 0.31 when
\* forecast_uncertainty is missing and model_r2 is 0.835 when model_r2 is
\* missing, and every field the payload has is passed on unchanged.
C13_AssemblyNeverFails ==
    Assembled /\ args.ydata.t = "dict"
    => /\ result.e = NoExc
       /\ result.v.t = "dict"
       /\ result.v.d.fips = JStr(args.fips)
       /\ result.v.d.week = args.current_week
       /\ "forecast_uncertainty" \notin DOMAIN args.ydata.d
          => result.v.d.confidence_interval = JFloat(310)
       /\ "model_r2" \notin DOMAIN args.ydata.d
          => result.v.d.model_r2 = JFloat(835)
       /\ \A f \in DOMAIN ForecastKeys :
             ForecastKeys[f].from \in DOMAIN args.ydata.d
             => result.v.d[f] = args.ydata.d[ForecastKeys[f].from]

\* C13 witness: a forecast payload without any field, answered with the two
\* defaults.
C13_Witness ==
    /\ Assembled
    /\ args.ydata = JDict(EmptyDict)
    /\ result.e = NoExc
    /\ result.v.d.confidence_interval = JFloat(310)
    /\ result.v.d.model_r2 = JFloat(835)
    /\ result.v.d.predicted_yield = JNull

\* C14: the fallback decisions of the calls of one request are independent.
\* In get_yield_forecast the first forecast POST goes to the primary
\* forecast address whichever address served the timeseries, the POST is
\* retried on the fallback address exactly when its own first attempt
\* failed at transport level, and after either course of the timeseries
\* fetch both courses of the POST remain possible; in health_check the
\* forecast dependency is probed, primary address first, whatever the
\* probes of the stress-data dependency gave.
C14_FallbacksIndependent ==
    /\ ep = "get_yield_forecast"
       => LET post == AttemptsOf("yield_post") IN
          /\ post # <<>> => post[1].addr = YIELD_URL
          /\ Len(post) = 2 => post[1].out = Transport /\ post[2].addr = YIELD_URL_LOCAL
          /\ pc = "done" /\ post # <<>> /\ post[1].out = Transport => Len(post) = 2
          /\ pc = "post_local" <=> Len(post) = 1 /\ post[1].out = Transport
          /\ pc = "post_primary"
             => /\ post = <<>>
                /\ ENABLED (get_yield_forecast_post_primary /\ pc' = "post_local")
                /\ ENABLED (get_yield_forecast_post_primary /\ pc' = "done")
    /\ ep = "health_check" /\ pc \in {"return", "done"} /\ locals.e = NoExc
       => LET probes == AttemptsOf("health_yield") IN
          /\ probes # <<>>
          /\ probes[1].addr = YIELD_URL
          /\ Len(probes) = 2 <=> probes[1].out = Transport

\* C14 witness: a forecast whose timeseries came from the fallback address
\* and whose POST was answered by the primary address.
C14_Witness ==
    /\ Done("get_yield_forecast")
    /\ Len(AttemptsOf("yield_ts")) = 2
    /\ Len(AttemptsOf("yield_post")) = 1
    /\ attempts[3].addr = YIELD_URL
    /\ result.kind = "ok"

\* The exceptions get_yield_forecast can end with: those of the client, of
\* the two upstream answers and of the transformation of their payloads.
YieldFailures ==
    {"RuntimeError", "ConnectError", "HTTPStatusError", "JSONDecodeError",
     "AttributeError", "TypeError", "ValueError"}

\* C16: the county identifier is forwarded as received and is not
\* validated: in get_yield_forecast every timeseries URL has the inbound
\* fips as its county segment, the forecast request body and the response
\* carry it in 'fips', and a request that ends in an error does so because
\* of the client or an upstream answer, never because of the identifier; in
\* the two stress-data endpoints the outbound URL carries it likewise.
C16_FipsPassedThrough ==
    /\ ep = "get_yield_forecast"
       => /\ \A i \in 1..Len(attempts) :
                /\ attempts[i].call = "yield_ts"
                   => attempts[i].path = <<"mcsi", "county", args.fips, "timeseries">>
                /\ attempts[i].call = "yield_post"
                   => /\ attempts[i].sent # None
                      /\ attempts[i].sent[1].d.fips = JStr(args.fips)
          /\ pc = "done" /\ result.kind = "ok" => result.body.d.fips = JStr(args.fips)
          /\ pc = "done" /\ result.kind = "error"
             => /\ result.code = 500
                /\ locals.e.type \in YieldFailures
          /\ pc = "done" /\ locals.e = NoExc => result.kind = "ok"
    /\ ep \in Proxies
       => \A i \in 1..Len(attempts) : attempts[i].path[3] = args.fips

\* C16 witness: a forecast for the identifier "abc", which is no county
\* code, answered with success.
C16_Witness ==
    /\ Done("get_yield_forecast")
    /\ args.fips = "abc"
    /\ result.kind = "ok"
    /\ result.body.d.fips = JStr("abc")
    /\ attempts[1].path[3] = "abc"

\* n, an integer, is the float x (in thousandths) with its fraction cut off:
\* the integer nearest to x that is no farther from zero.
IsTruncationOf(n, x) ==
    /\ x >= 0 => n >= 0 /\ 1000 * n <= x /\ x < 1000 * (n + 1)
    /\ x <= 0 => n <= 0 /\ 1000 * n >= x /\ x > 1000 * (n - 1)

\* C17: the lst_days_above_32C of a raw_data entry is the integer cast of
\* the lst_mean indicator of an item of that week, that is the temperature
\* with its fraction cut off toward zero and no count of days, and is 0 when
\* the item has no lst_mean.
C17_HeatDaysIsIntegerCast ==
    Transformed
    => LET raw == result.v.d.raw_data.d
           ts  == args.timeseries
       IN  \A w \in WeeksUpTo(ts, result.v.d.current_week.n) :
              /\ raw[ToString(w)].d.lst_days_above_32C.t = "int"
              /\ \E i \in ItemsOfWeek(ts, w) :
                    LET ind  == IndicatorsAt(ts, i)
                        days == raw[ToString(w)].d.lst_days_above_32C.n
                    IN  /\ "lst_mean" \notin DOMAIN ind => days = 0
                        /\ "lst_mean" \in DOMAIN ind
                           => /\ ind.lst_mean.t = "float"
                              /\ IsTruncationOf(days, ind.lst_mean.n)

\* C17 witness: an entry made from a temperature of -1.5 degrees, cast to -1.
C17_Witness ==
    /\ Transformed
    /\ \E i \in 1..Len(ItemsOf(args.timeseries)) :
          /\ WeekAt(args.timeseries, i) = JInt(1)
          /\ IndicatorsAt(args.timeseries, i) = [lst_mean |-> JFloat(-1500)]
    /\ "1" \in DOMAIN result.v.d.raw_data.d
    /\ result.v.d.raw_data.d["1"].d.lst_days_above_32C = JInt(-1)

\* C18: status(csi) gives every csi of [0,100] one of the five labels, each
\* band including its lower edge: HEALTHY below 20, MILD from 20 to below
\* 40, MODERATE from 40 to below 60, SEVERE from 60 to below 80 and CRITICAL
\* from 80 on.
C18_StatusBands ==
    Applied("get_stress_status")
    => LET csi == args.csi
           status == result.status
       IN  /\ status \in StatusLabels
           /\ status = "HEALTHY"  <=> csi < Tenths(20)
           /\ status = "MILD"     <=> Tenths(20) <= csi /\ csi < Tenths(40)
           /\ status = "MODERATE" <=> Tenths(40) <= csi /\ csi < Tenths(60)
           /\ status = "SEVERE"   <=> Tenths(60) <= csi /\ csi < Tenths(80)
           /\ status = "CRITICAL" <=> Tenths(80) <= csi

\* C18 witness: the lower edge 40.0 of a band, labelled MODERATE.
C18_Witness ==
    /\ Applied("get_stress_status")
    /\ args.csi = Tenths(40)
    /\ result.status = "MODERATE"

\* C19: outside the pollination period water_stress is the step function of
\* the deficit: 0 below 0, 20 from 0 to below 2, 50 from 2 to 4 inclusive,
\* 75 above 4 and below 6, 100 from 6 on; it is within [0,100] and does not
\* decrease when the deficit grows.
C19_WaterStressSteps ==
    Applied("calculate_water_stress")
    => LET d == args.deficit_mm
           stress == result.stress_normal
       IN  /\ d < 0 => stress = Tenths(0)
           /\ 0 <= d /\ d < Tenths(2) => stress = Tenths(20)
           /\ Tenths(2) <= d /\ d <= Tenths(4) => stress = Tenths(50)
           /\ Tenths(4) < d /\ d < Tenths(6) => stress = Tenths(75)
           /\ Tenths(6) <= d => stress = Tenths(100)
           /\ 0 <= stress /\ stress <= Tenths(100)
           /\ args.other_mm <= d => result.stress_other <= stress

\* C19 witness: the deficit 4.0, the closed upper edge of the 50 band, with
\* a smaller deficit of the band below.
C19_Witness ==
    /\ Applied("calculate_water_stress")
    /\ args.deficit_mm = Tenths(4)
    /\ args.other_mm = 15
    /\ result.stress_normal = Tenths(50)
    /\ result.stress_other = Tenths(20)

\* The pollination value is 1.5 times the other one.
RatioIsOneAndAHalf == 2 * result.stress_pollination = 3 * result.stress_normal

\* C20 as stated: in the pollination period water_stress and heat_stress
\* give the value of the same inputs outside it multiplied by 1.5 and
\* clamped to 100, never more than 100, and the ratio of the two is 1.5
\* whenever the value outside the period is positive and below the clamp
\* of 100.
C20_RatioBelowClamp ==
    Applied("calculate_water_stress") \/ Applied("calculate_heat_stress")
    => /\ result.stress_pollination <= Tenths(100)
       /\ 0 < result.stress_normal /\ result.stress_normal < Tenths(100)
          => RatioIsOneAndAHalf

\* C20 amended: in the pollination period water_stress and heat_stress give
\* the value of the same inputs outside it multiplied by 1.5 and clamped to
\* 100, never more than 100, and the ratio of the two is 1.5 whenever the
\* value outside the period is positive and its product with 1.5 does not
\* exceed 100; above that the result is 100.
C20_RatioWhileProductWithinClamp ==
    Applied("calculate_water_stress") \/ Applied("calculate_heat_stress")
    => /\ result.stress_pollination <= Tenths(100)
       /\ result.stress_pollination >= result.stress_normal
       /\ 0 < result.stress_normal /\ 3 * result.stress_normal <= 2 * Tenths(100)
          => RatioIsOneAndAHalf
       /\ 3 * result.stress_normal > 2 * Tenths(100)
          => result.stress_pollination = Tenths(100)
       /\ result.stress_normal = 0 => result.stress_pollination = 0

\* C20 witness: the deficit 5.0, whose 75 outside the pollination period
\* becomes the clamped 100 inside it.
C20_Witness ==
    /\ Applied("calculate_water_stress")
    /\ args.deficit_mm = Tenths(5)
    /\ result.stress_normal = Tenths(75)
    /\ result.stress_pollination = Tenths(100)

\* C15: two requests in flight do not interfere.  Under every interleaving
\* of their steps, for the same county or for two, the current_week and the
\* raw_data a request sends and the response or error it ends with are the
\* ones get_yield_forecast gives for its own parameters and the answers to
\* its own calls, whatever the other request does meanwhile.
C15_RequestsDoNotInterfere ==
    \A r \in Requests :
        /\ \A i \in 1..Len(attempts[r]) :
              attempts[r][i].call = "yield_post"
              => /\ net[r].ts # None
                 /\ OwnRequest(r).e = NoExc
                 /\ attempts[r][i].sent = Some(OwnRequest(r).v)
        /\ pc[r] \in {"post_primary", "post_local"}
           => /\ locals[r].yield_req = OwnRequest(r).v
              /\ locals[r].current_week = OwnRequest(r).v.d.current_week
        /\ pc[r] = "done" => result[r] = OwnResult(r)

\* C15 witness: both requests are between their two calls, for the same
\* county, with different weeks and different timeseries, and one of them
\* then ends with the response of its own inputs.
C15_Witness ==
    /\ ep = "concurrent"
    /\ pc["a"] = "done"
    /\ pc["b"] = "post_local"
    /\ args["a"].fips = args["b"].fips
    /\ locals["a"].current_week = JInt(2)
    /\ locals["b"].current_week = JInt(1)
    /\ result["a"].kind = "ok"
    /\ result["a"].body.d.week = JInt(2)

TaggedWith(tag, recs) == Cardinality({i \in 1..Len(recs) : recs[i] = tag})

\* C23: each of the four rules contributes exactly one recommendation when
\* its condition holds and none when it does not, whatever the other
\* conditions are; with status CRITICAL the urgency recommendation is there
\* and the water-stress and yield-risk recommendations are still there when
\* their own conditions hold.
C23_RulesFireIndependently ==
    Applied("generate_recommendations") =>
        LET t == RuleTriggers(args)
            One(b) == IF b THEN 1 ELSE 0
        IN  /\ TaggedWith("WATER STRESS", result.recs) = One(t.water)
            /\ TaggedWith("YIELD", result.recs) = One(t.yield)
            /\ TaggedWith("POLLINATION", result.recs) = One(t.pollination)
            /\ TaggedWith("URGENT", result.recs) = One(t.critical)
            /\ get_stress_status(args.csi) = "CRITICAL" =>
                  /\ \E i \in 1..Len(result.recs) : result.recs[i] = "URGENT"
                  /\ args.water > WATER_MODERATE =>
                        \E i \in 1..Len(result.recs) : result.recs[i] = "WATER STRESS"
                  /\ 100 * args.yield < (100 - YIELD_MARGIN) * args.baseline =>
                        \E i \in 1..Len(result.recs) : result.recs[i] = "YIELD"

\* The extreme fixture (CSI 99.9, water 95, yield 150 against 199.2): the
\* urgency, water-stress and yield-risk recommendations came back together.
C23_Witness ==
    /\ Applied("generate_recommendations")
    /\ args.csi = 999
    /\ args.water = 950
    /\ args.yield = 1500
    /\ ~args.is_pollination
    /\ result.recs = <<"WATER STRESS", "YIELD", "URGENT">>

----------------------------------------------------------------------------
(* The two chat services: src/rag/rag_service.py, which answers from the   *)
(* live data alone, and src/rag/rag_service_simple.py, which first queries *)
(* the knowledge collection.  ep names the module that serves; locals      *)
(* holds the module's globals, set at import, and what the handler built;  *)
(* net holds what the two collaborators answer to the request in flight.   *)
(* A handler makes blocking calls only and so runs in one step.            *)

MaxDocs == 6        \* documents in the knowledge collection: 0..MaxDocs

N_RESULTS   == 5    \* src/rag/rag_service_simple.py:77, n_results=5
TEXT_BUDGET == 500  \* src/rag/rag_service_simple.py:83, doc[:500]

Services == {"rag_service", "rag_service_simple"}

\* bool(x) of an Optional[str]: None and "" are false
Truthy(opt) == opt # None /\ opt[1] # ""

\* os.environ.get("GEMINI_API_KEY"): absent, empty or set
ApiKeys == {None, Some(""), Some("key")}

\* src/rag/rag_service_simple.py:46-55: the collection handle, or None when
\* opening it raised.  src/rag/rag_service.py has no collection.
Collections(service) ==
    IF service = "rag_service_simple" THEN {None, Some("corn-stress-knowledge")}
    ELSE {None}

Globals(collection, key) ==
    [collection |-> collection, GEMINI_API_KEY |-> key,
     contexts |-> <<>>, prompt |-> None, e |-> NoExc]

\* A document is held as which one it is and how many characters it has;
\* distances are in thousandths.  The collection ranks by distance.
Doc(id, len, dist) == [text |-> [id |-> id, len |-> len], dist |-> dist]

Store(n, base, step) == [i \in 1..n |-> Doc(i, base + i, (i - 1) * step)]

Stores == { Store(n, base, step) : n \in 0..MaxDocs, base \in {0, 498, 1000},
                                   step \in {0, 100, 400} }

\* collection.query(query_texts=[q], n_results=n): the n nearest, nearest first
Query(store, n) == SubSeq(store, 1, Min(n, Len(store)))

\* Variant of Prefix: the text is taken whole.
PrefixWhole(text, n) == text

\* text[:n]
Prefix(text, n) == [text EXCEPT !.len = Min(n, text.len)]

\* src/rag/rag_service_simple.py:79-85
Contexts(results) ==
    [i \in 1..Len(results) |->
        [text |-> Prefix(results[i].text, TEXT_BUDGET), score |-> 1000 - results[i].dist]]

\* model.generate_content(...): a text, or an exception when the service is
\* not reachable
GenText  == [kind |-> "text", text |-> "answer"]
GenRaise == [kind |-> "raise", text |-> ""]
Generations == {GenText, GenRaise}

GenerationError == Exc("ServiceUnavailable", "503 generation service unavailable")
QueryError      == Exc("ConnectionError", "Could not connect to a Chroma server")

ChatNets == [store : Stores, query_raises : BOOLEAN, generation : Generations]

\* ChatMessage, src/rag/rag_service_simple.py:20-24
StressData == [csi_overall |-> 355, water_stress |-> 423, heat_stress |-> 89]

ChatMessages ==
    [fn : {"chat"}, query : {"How stressed is my corn?"},
     county : {None, Some("Adair")}, week : {None, Some(30)},
     agri_context : {None, Some(<<>>), Some(StressData)}]

\* message.agri_context or {}
AgriData(message) ==
    IF message.agri_context = None THEN <<>> ELSE message.agri_context[1]

\* The prompt, by its parts (src/rag/rag_service_simple.py:88-103,
\* src/rag/rag_service.py:42-51); an empty context reads "No context found".
Prompt(message, contexts) ==
    [question    |-> message.query,
     county_info |-> IF Truthy(message.county)
                     THEN Some([county |-> message.county, week |-> message.week])
                     ELSE None,
     stress_info |-> IF DOMAIN AgriData(message) # {}
                     THEN Some(AgriData(message))
                     ELSE None,
     context     |-> contexts]

ChatResponse(text, contexts) ==
    Ok([response |-> text, retrieved_contexts |-> contexts])

\* An exception that leaves the handler: the framework answers 500.
Unhandled == [kind |-> "fault", code |-> 500, detail |-> "Internal Server Error"]

Called(call) == [call |-> call]

InitRag ==
    /\ ep \in Services
    /\ pc = "idle"
    /\ args = NoArgs
    /\ net = NoNet
    /\ attempts = <<>>
    /\ \E c \in Collections(ep), k \in ApiKeys : locals = Globals(c, k)
    /\ result = NoResult
    /\ prev = NoPrev

\* The handler is over: pc, args, net and what it built.
RagFinish(message, n, att, loc, res) ==
    /\ pc' = "done"
    /\ args' = message
    /\ net' = n
    /\ attempts' = att
    /\ locals' = loc
    /\ result' = res
    /\ UNCHANGED <<ep, prev>>

\* src/rag/rag_service_simple.py:61-68
simple_health ==
    /\ ep = "rag_service_simple"
    /\ pc = "idle"
    /\ RagFinish([fn |-> "health"], NoNet, <<>>, locals,
                 Ok([status |-> IF locals.collection # None /\ Truthy(locals.GEMINI_API_KEY)
                                THEN "healthy" ELSE "degraded",
                     chroma_connected  |-> locals.collection # None,
                     gemini_configured |-> locals.GEMINI_API_KEY # None]))

\* src/rag/rag_service_simple.py:72, not collection or not GEMINI_API_KEY
simple_chat_guard == locals.collection = None \/ ~Truthy(locals.GEMINI_API_KEY)

\* src/rag/rag_service_simple.py:70-123
simple_chat ==
    /\ ep = "rag_service_simple"
    /\ pc = "idle"
    /\ \E message \in ChatMessages, n \in ChatNets :
          IF simple_chat_guard
          THEN RagFinish(message, n, <<>>, locals, HTTPException(503, "Service not ready"))
          ELSE IF n.query_raises
          THEN RagFinish(message, n, <<Called("query")>>, [locals EXCEPT !.e = QueryError],
                         HTTPException(500, QueryError.msg))
          ELSE LET contexts == Contexts(Query(n.store, N_RESULTS))
                   att == <<Called("query"), Called("generate_content")>>
                   loc == [locals EXCEPT !.contexts = contexts,
                                         !.prompt = Some(Prompt(message, contexts))]
               IN  IF n.generation.kind = "raise"
                   THEN RagFinish(message, n, att, [loc EXCEPT !.e = GenerationError],
                                  HTTPException(500, GenerationError.msg))
                   ELSE RagFinish(message, n, att, loc,
                                  ChatResponse(n.generation.text, contexts))

\* src/rag/rag_service.py:33-35
service_health ==
    /\ ep = "rag_service"
    /\ pc = "idle"
    /\ RagFinish([fn |-> "health"], NoNet, <<>>, locals,
                 Ok([status |-> "healthy", chroma_connected |-> TRUE,
                     gemini_configured |-> Truthy(locals.GEMINI_API_KEY)]))

\* src/rag/rag_service.py:37-56; nothing catches what generate_content raises
service_chat ==
    /\ ep = "rag_service"
    /\ pc = "idle"
    /\ \E message \in ChatMessages, g \in Generations :
        LET n == [store |-> <<>>, query_raises |-> FALSE, generation |-> g] IN
          IF ~Truthy(locals.GEMINI_API_KEY)
          THEN RagFinish(message, n, <<>>, locals, HTTPException(503, "Gemini not configured"))
          ELSE LET loc == [locals EXCEPT !.prompt = Some(Prompt(message, <<>>))] IN
               IF g.kind = "raise"
               THEN RagFinish(message, n, <<Called("generate_content")>>,
                              [loc EXCEPT !.e = GenerationError], Unhandled)
               ELSE RagFinish(message, n, <<Called("generate_content")>>, loc,
                              ChatResponse(g.text, <<>>))

\* The response is sent; the module's globals stay.
rag_respond ==
    /\ ep \in Services
    /\ pc = "done"
    /\ pc' = "idle"
    /\ args' = NoArgs
    /\ net' = NoNet
    /\ attempts' = <<>>
    /\ locals' = Globals(locals.collection, locals.GEMINI_API_KEY)
    /\ result' = NoResult
    /\ UNCHANGED <<ep, prev>>

NextRag ==
    \/ simple_health
    \/ simple_chat
    \/ service_health
    \/ service_chat
    \/ rag_respond

SpecRag == InitRag /\ [][NextRag]_vars

\* A chat request of the named service has been answered.
Chatted(service) == ep = service /\ pc = "done" /\ args.fn = "chat"

\* generate_content cannot answer the request in flight: no key is
\* configured, or the call raises
GenerationUnavailable ==
    ~Truthy(locals.GEMINI_API_KEY) \/ net.generation.kind = "raise"

\* C24: with the knowledge collection not opened and everything else in
\* place, a chat request still builds its context from the live data, makes
\* no retrieval call and is not failed for the missing collection.
C24_ChatSurvivesMissingCollection ==
    (Chatted("rag_service_simple") /\ locals.collection = None
        /\ Truthy(locals.GEMINI_API_KEY)) =>
        /\ locals.prompt # None
        /\ \A i \in 1..Len(attempts) : attempts[i].call # "query"
        /\ result # HTTPException(503, "Service not ready")

\* C25: when generate_content is not configured or raises, the caller of
\* chat receives no generated text, and receives either a response that
\* leaves the narrative out or an error the handler raised to say so.
C25_GenerationFailureIsFlagged ==
    \A service \in Services :
        (Chatted(service) /\ GenerationUnavailable) =>
            /\ result.kind = "ok" => result.body.response = ""
            /\ result.kind \in {"ok", "error"}

\* C26: the contexts of one chat request are at most 5, in the order the
\* collection ranked the documents, each with its text cut to at most 500
\* characters and with score 1 - distance.
C26_ContextsBoundedRankedTruncated ==
    (Chatted("rag_service_simple") /\ locals.prompt # None) =>
        LET cs == locals.contexts
            st == net.store
        IN  /\ Len(cs) <= 5
            /\ Len(cs) <= Len(st)
            /\ Len(st) <= 5 => Len(cs) = Len(st)
            /\ \A i \in 1..Len(cs) :
                  /\ cs[i].text.id = st[i].text.id
                  /\ cs[i].text.len <= 500
                  /\ cs[i].text.len = Min(500, st[i].text.len)
                  /\ cs[i].score = 1000 - st[i].dist
            /\ result.kind = "ok" => result.body.retrieved_contexts = cs

\* Six documents of 499 to 504 characters were ranked; five contexts came
\* back with the answer, the second and later ones cut to 500.
C26_Witness ==
    /\ Chatted("rag_service_simple")
    /\ result.kind = "ok"
    /\ Len(net.store) = 6
    /\ net.store[6].text.len = 504
    /\ net.store[2].dist = 400
    /\ Len(result.body.retrieved_contexts) = 5
    /\ result.body.retrieved_contexts[1].text.len = 499
    /\ result.body.retrieved_contexts[5].text.len = 500
    /\ result.body.retrieved_contexts[2].score = 600

\* C29: the health report of the retrieval-backed service says "healthy"
\* exactly when it says chroma_connected and gemini_configured, and chat
\* rejects with 503 "Service not ready" exactly when it says "degraded".
C29_HealthConsistentWithGuard ==
    (ep = "rag_service_simple" /\ pc = "done" /\ args.fn = "health") =>
        /\ (result.body.status = "healthy")
              <=> (result.body.chroma_connected /\ result.body.gemini_configured)
        /\ simple_chat_guard <=> (result.body.status = "degraded")

\* The probes health_check made of the fallback address of a dependency
FallbackProbes(call) ==
    SelectSeq(attempts, LAMBDA a : a.call = call /\ a.addr = Local(PrimaryOf(call)))

\* C27: in health_check a dependency whose primary address answers the
\* probe with a status other than 200 is reported 'unhealthy' and its
\* fallback address is not probed, whatever that address would answer; the
\* fallback is probed only when the primary probe raised.
C27_Non200PrimaryIsFinal ==
    (Done("health_check") /\ locals.e = NoExc) =>
        \A dep \in {[call |-> "health_mcsi", name |-> "mcsi"],
                     [call |-> "health_yield", name |-> "yield"]} :
            LET primary == net[PrimaryOf(dep.call)] IN
            /\ (primary.kind = "http" /\ primary.status # 200) =>
                  /\ result.body.services[dep.name] = "unhealthy"
                  /\ FallbackProbes(dep.call) = <<>>
            /\ FallbackProbes(dep.call) # <<>> => primary = Transport

\* The primary address of the stress-data service answered 500, its
\* fallback address would have answered 200 and was not asked, and the
\* service is reported unhealthy.
C27_Witness ==
    /\ Done("health_check")
    /\ net[MCSI_URL] = Http(500)
    /\ net[MCSI_URL_LOCAL] = Http(200)
    /\ Len(AttemptsOf("health_mcsi")) = 1
    /\ result.body.services.mcsi = "unhealthy"
    /\ result.body.status = "degraded"

----------------------------------------------------------------------------
(* The two seeders of the knowledge collection: connect_chromadb of        *)
(* src/rag/seed_rag_knowledge_base.py and seed_knowledge_base of           *)
(* src/rag/seed.py.  Each is a process of its own, named by ep.  For the   *)
(* first, attempts lists how each connection attempt ended; for the        *)
(* second, net holds the collection on the server and the knowledge_base   *)
(* directory, and the script is run again and again over them.             *)

MaxFiles == 2       \* files in the knowledge_base directory: 0..MaxFiles
MaxRuns  == 2       \* runs of seed.py over the same directory

max_retries == 5    \* src/rag/seed_rag_knowledge_base.py:37
chunk_size  == 500  \* src/rag/seed.py:22

\* How one attempt of lines 41-50 ends: HttpClient raises, get_settings
\* raises, or the client is there
ConnectOutcomes == {"client_raises", "settings_raises", "connected"}

ConnectLocals(attempt) == [attempt |-> attempt, e |-> NoExc]

Returned(client) == [kind |-> "returned", client |-> client]
Exited(status)   == [kind |-> "exit", status |-> status]

\* Variant of connect_chromadb_attempt: the last failure is retried like
\* the others.
connect_chromadb_attempt_retrying ==
    /\ ep = "connect_chromadb"
    /\ pc = "try"
    /\ \E out \in ConnectOutcomes :
        /\ attempts' = Append(attempts, out)
        /\ IF out = "connected"
           THEN pc' = "done" /\ result' = Returned(Some("client"))
           ELSE pc' = "sleep" /\ UNCHANGED result
    /\ UNCHANGED <<ep, args, net, locals, prev>>

\* src/rag/seed_rag_knowledge_base.py:41-59, one pass of the loop body up
\* to the return, the sleep or the exit
connect_chromadb_attempt ==
    /\ ep = "connect_chromadb"
    /\ pc = "try"
    /\ \E out \in ConnectOutcomes :
        /\ attempts' = Append(attempts, out)
        /\ IF out = "connected"
           THEN pc' = "done" /\ result' = Returned(Some("client"))
           ELSE IF locals.attempt < max_retries - 1
           THEN pc' = "sleep" /\ UNCHANGED result
           ELSE pc' = "done" /\ result' = Exited(1)
    /\ UNCHANGED <<ep, args, net, locals, prev>>

\* lines 56 and 40: time.sleep returns and the loop takes its next value; a
\* range that is used up ends the function, which then returns None
connect_chromadb_retry ==
    /\ ep = "connect_chromadb"
    /\ pc = "sleep"
    /\ locals' = ConnectLocals(locals.attempt + 1)
    /\ IF locals.attempt + 1 < max_retries
       THEN pc' = "try" /\ UNCHANGED result
       ELSE pc' = "done" /\ result' = Returned(None)
    /\ UNCHANGED <<ep, args, net, attempts, prev>>

\* A file of the directory: its name and the words pypdf extracts from it
\* (none from a file it cannot read, src/rag/seed.py:17-19)
File(name, words) == [name |-> name, words |-> words]

FileNames  == {"a.pdf", "b.pdf", "notes.txt"}
WordCounts == {0, 1, chunk_size, chunk_size + 1}

\* os.listdir(knowledge_dir): the files in the order the system lists them
Listings ==
    { l \in UNION { [1..n -> [name : FileNames, words : WordCounts]] : n \in 0..MaxFiles } :
        \A i, j \in 1..Len(l) : i # j => l[i].name # l[j].name }

\* str.endswith(".pdf")
EndsWithPdf(name) ==
    Len(name) >= 4 /\ SubSeq(name, Len(name) - 3, Len(name)) = ".pdf"

\* The text of a file is held as how many words it has, a chunk as the
\* words it runs from and to.
Chunk(name, first, last) == [file |-> name, first |-> first, last |-> last]

\* src/rag/seed.py:22-29: range(0, len(words), chunk_size)
chunk_text(file) ==
    [k \in 1..((file.words + chunk_size - 1) \div chunk_size) |->
        Chunk(file.name, (k - 1) * chunk_size + 1, Min(file.words, k * chunk_size))]

\* Variant of ChunkId: the id also carries the run that wrote it, as an id
\* drawn afresh at each run does.
ChunkIdPerRun(filename, i) ==
    filename \o "_" \o ToString(i) \o "_" \o ToString(locals.runs)

\* src/rag/seed.py:57, f"{filename}_{i}"
ChunkId(filename, i) == filename \o "_" \o ToString(i)

\* What collection.add is called with for one file, lines 55-59
Entries(file) ==
    { [id |-> ChunkId(file.name, k - 1), document |-> chunk_text(file)[k],
       source |-> file.name] : k \in 1..Len(chunk_text(file)) }

\* collection.add on the server: an id already there is left as it is
Add(collection, entries) ==
    collection \cup { n \in entries : \A o \in collection : o.id # n.id }

\* What an earlier seeding may have left on the server
Stale == [id |-> "a.pdf_0", document |-> Chunk("a.pdf", 1, 7), source |-> "a.pdf"]

SeedNets ==
    [collection        : {None, Some({Stale})},
     dir               : {None} \cup { Some(l) : l \in Listings },
     add_empty_raises  : BOOLEAN]

SeedLocals(runs, i, e) == [runs |-> runs, i |-> i, e |-> e]

InitSeed ==
    /\ ep \in {"connect_chromadb", "seed_knowledge_base"}
    /\ args = NoArgs
    /\ attempts = <<>>
    /\ result = NoResult
    /\ prev = NoPrev
    /\ IF ep = "connect_chromadb"
       THEN pc = "try" /\ net = NoNet /\ locals = ConnectLocals(0)
       ELSE pc = "idle" /\ net \in SeedNets /\ locals = SeedLocals(0, 0, NoExc)

\* The script is over; what the first run left is kept for comparison.
EndRun(n, e) ==
    /\ pc' = "idle"
    /\ net' = n
    /\ locals' = SeedLocals(locals.runs + 1, 0, e)
    /\ prev' = IF locals.runs = 0 THEN [collection |-> n.collection] ELSE prev

\* src/rag/seed.py:35-47: the collection is deleted if it is there (the
\* exception is passed over if it is not) and created empty
seed_knowledge_base_open ==
    /\ ep = "seed_knowledge_base"
    /\ pc = "idle"
    /\ locals.runs < MaxRuns
    /\ LET n == [net EXCEPT !.collection = Some({})] IN
       IF net.dir = None
       THEN EndRun(n, NoExc)
       ELSE /\ pc' = "files"
            /\ net' = n
            /\ locals' = SeedLocals(locals.runs, 1, NoExc)
            /\ UNCHANGED prev
    /\ UNCHANGED <<ep, args, attempts, result>>

\* src/rag/seed.py:49-64, one file of the listing; an exception of add ends
\* the run in the handler of line 63
seed_knowledge_base_file ==
    /\ ep = "seed_knowledge_base"
    /\ pc = "files"
    /\ LET files == net.dir[1]
           i     == locals.i
       IN  IF i > Len(files)
           THEN EndRun(net, NoExc)
           ELSE IF ~EndsWithPdf(files[i].name)
           THEN /\ locals' = SeedLocals(locals.runs, i + 1, NoExc)
                /\ UNCHANGED <<pc, net, prev>>
           ELSE IF chunk_text(files[i]) = <<>> /\ net.add_empty_raises
           THEN EndRun(net, Exc("ValueError", "Expected IDs to be a non-empty list"))
           ELSE /\ net' = [net EXCEPT !.collection =
                                Some(Add(net.collection[1], Entries(files[i])))]
                /\ locals' = SeedLocals(locals.runs, i + 1, NoExc)
                /\ UNCHANGED <<pc, prev>>
    /\ UNCHANGED <<ep, args, attempts, result>>

NextSeed ==
    \/ connect_chromadb_attempt
    \/ connect_chromadb_retry
    \/ seed_knowledge_base_open
    \/ seed_knowledge_base_file

SpecSeed == InitSeed /\ [][NextSeed]_vars

\* The process is scheduled for as long as it has a step to take.
SpecSeedFair == SpecSeed /\ WF_vars(NextSeed)

\* The attempts so far: at most 5, none but the last succeeded, and the
\* process has ended exactly on a success, with the client, or on the fifth
\* failure, with exit status 1.
ConnectWellFormed ==
    /\ Len(attempts) <= 5
    /\ \A i \in 1..(Len(attempts) - 1) : attempts[i] # "connected"
    /\ pc = "done" =>
          \/ /\ result = Returned(Some("client"))
             /\ attempts[Len(attempts)] = "connected"
          \/ /\ result = Exited(1)
             /\ Len(attempts) = 5
             /\ attempts[5] # "connected"
    /\ pc # "done" =>
          /\ Len(attempts) < 5
          /\ Len(attempts) = locals.attempt + (IF pc = "sleep" THEN 1 ELSE 0)

\* C28: connect_chromadb makes at most 5 attempts, returns the client on
\* the first that succeeds, retries after each of the first four failures,
\* exits with status 1 after the fifth, never returns without a client, and
\* always terminates.
C28_ConnectBoundedAndTerminates ==
    /\ [](ep = "connect_chromadb" => ConnectWellFormed)
    /\ (ep = "connect_chromadb") ~> (ep = "connect_chromadb" /\ pc = "done")

\* Five attempts failed one after the other and the process exited with 1.
C28_Witness ==
    /\ ep = "connect_chromadb"
    /\ pc = "done"
    /\ Len(attempts) = 5
    /\ result = Exited(1)

\* C30: a second run of seed_knowledge_base over the same directory leaves
\* the collection with the documents and ids the first run left, no id
\* twice.
C30_SeedingIsIdempotent ==
    (ep = "seed_knowledge_base" /\ pc = "idle" /\ locals.runs >= 2) =>
        /\ net.collection = prev.collection
        /\ \A a, b \in net.collection[1] : a.id = b.id => a = b

\* Two PDFs of 501 words and of 1 word were seeded twice over a collection
\* an earlier seeding had left: three chunks, under the ids of the first run.
C30_Witness ==
    /\ ep = "seed_knowledge_base"
    /\ pc = "idle"
    /\ locals.runs = 2
    /\ locals.e = NoExc
    /\ prev.collection # Some({})
    /\ { o.id : o \in net.collection[1] } = {"a.pdf_0", "a.pdf_1", "b.pdf_0"}
    /\ \E o \in net.collection[1] : o.document = Chunk("a.pdf", 501, 501)

====
